---- MODULE Spec2Model ----
(***************************************************************************)
(* Verification model of the BTC hourly-options backtest repository.       *)
(*                                                                         *)
(* The repository is a set of scripts that share one engine: a candle      *)
(* generator driven by Python's module-global random generator, trade      *)
(* simulators, bankroll-tracking path runners and aggregation.  Each part  *)
(* is modelled as its own state machine over its own variables; a          *)
(* specification SpecX runs one part and keeps the others idle.            *)
(*                                                                         *)
(* Arithmetic.  The code computes in binary floating point; the model      *)
(* computes in exact integers on fixed grids named at each definition.     *)
(***************************************************************************)
EXTENDS Integers, Sequences, FiniteSets, TLC

VARIABLES
    kg,         \* one call of generate_btc_candles (experiment_kelly_criterion.py)
    fn,         \* one call of a helper function: its arguments and what it returned
    sw,         \* the sweep of experiment_rh_pricing.py over experiments and paths
    grng,       \* state of the module-global generator of module `random`
    gen,        \* the running calls of generate_realistic_btc_data
    tr,         \* one trade handed to a trade simulator, and its result
    bt,         \* one call of run_backtest (backtest.py)
    ag,         \* calls of aggregate_results (backtest.py) on one set of path results
    yr,         \* runs of run_year (backtest_combined.py), one process after another
    rk,         \* one parameter sweep that ranks its configurations
    orch,       \* the orchestrator process (orchestrator/main.py) and the files it uses
    agt         \* one call of claude_agent.execute: its conversation with the model

genVars == <<grng, gen>>
tradeVars == <<tr>>
btVars == <<bt>>
aggVars == <<ag>>
yearVars == <<yr>>
sweepVars == <<sw>>
kellyVars == <<kg>>
fnVars == <<fn>>
rankVars == <<rk>>
orchVars == <<orch>>
agentVars == <<agt>>
vars == <<grng, gen, tr, bt, ag, yr, sw, kg, fn, rk, orch, agt>>

(***************************************************************************)
(* Small helpers                                                           *)
(***************************************************************************)
Max(a, b) == IF a >= b THEN a ELSE b
Min(a, b) == IF a <= b THEN a ELSE b
Abs(a) == IF a < 0 THEN -a ELSE a

\* floor(x * num / den) for den > 0, computed without leaving 32 bits.
MulDiv(x, num, den) == (x \div den) * num + ((x % den) * num) \div den

(***************************************************************************)
(* random.Random: a deterministic stream.  The Mersenne Twister is         *)
(* modelled by a 16-bit linear congruential generator; random() yields     *)
(* the top four bits of the new state, i.e. u = RngU(state) / 16.          *)
(***************************************************************************)
RngMod == 65536
RngUnits == 16

\* random.seed(s) / random.Random(s): the state is a function of the seed.
RngSeed(s) == (s * 2053 + 13849) % RngMod

\* one draw: the successor state
RngNext(st) == (st * 25173 + 13849) % RngMod

\* the value of the draw that led to state st, in sixteenths
RngU(st) == st \div (RngMod \div RngUnits)

(***************************************************************************)
(* generate_realistic_btc_data (backtest.py): the candle generator.        *)
(* Prices are kept in mills (1/1000 dollar), rates in basis points.        *)
(***************************************************************************)
Hours == 2              \* days * 24 of the call, bounded
NumSeeds == 2           \* num_seeds of generate_multi_seed_data, bounded
Gens == 1..3            \* the generator calls that may be in progress

START_PRICE == 42000000         \* price = 42000.0
BASE_HOURLY_VOL == 90           \* base_hourly_vol = 0.009

regime_names ==
    <<"bull_trend", "strong_bull", "ranging", "bear_trend", "selloff", "recovery">>

\* regimes[name] = (drift_per_hour, vol_multiplier); drift in bp, multiplier in tenths
regimes ==
    [r \in {regime_names[i] : i \in 1..6} |->
        CASE r = "bull_trend"  -> <<4, 8>>
          [] r = "strong_bull" -> <<8, 12>>
          [] r = "ranging"     -> <<0, 6>>
          [] r = "bear_trend"  -> <<-3, 10>>
          [] r = "selloff"     -> <<-10, 20>>
          [] OTHER             -> <<6, 15>>]

\* the regime-conditioned transition weights, in percent
TransitionWeights(current_regime) ==
    IF current_regime \in {"bull_trend", "strong_bull"} THEN <<25, 15, 35, 15, 5, 5>>
    ELSE IF current_regime = "ranging"    THEN <<25, 10, 30, 20, 5, 10>>
    ELSE IF current_regime = "bear_trend" THEN <<15, 5, 30, 25, 10, 15>>
    ELSE IF current_regime = "selloff"    THEN <<10, 5, 15, 20, 20, 30>>
    ELSE <<30, 15, 25, 15, 5, 10>>

RECURSIVE SumTo(_, _)
SumTo(w, i) == IF i = 0 THEN 0 ELSE w[i] + SumTo(w, i - 1)

\* random.choices(population, weights, k=1)[0] for the draw u (sixteenths):
\* the first index whose cumulative weight exceeds u * total.
Choices(population, weights, u) ==
    LET total == SumTo(weights, Len(weights))
        idx == CHOOSE i \in 1..Len(weights) :
                  /\ SumTo(weights, i) * RngUnits > u * total
                  /\ \A j \in 1..(i - 1) : SumTo(weights, j) * RngUnits <= u * total
    IN population[idx]

\* random.gauss(mu, sigma): mu + z * sigma, z from the inverse normal CDF
\* at the midpoints of the sixteen draw values, in tenths.
GaussZ == <<-19, -13, -10, -8, -6, -4, -2, -1, 1, 2, 4, 6, 8, 10, 13, 19>>
Gauss(mu, sigma, u) == mu + (GaussZ[u + 1] * sigma) \div 10

\* round(x, 2) of a price in mills: the nearest cent, ties to even
Round2(m) ==
    LET q == m \div 10
        r == m % 10
    IN IF r < 5 THEN q
       ELSE IF r > 5 THEN q + 1
       ELSE IF q % 2 = 0 THEN q ELSE q + 1

\* One iteration of the loop `for h in range(hours)`: the draws are taken from
\* the generator state st in program order.  Returns the new generator state,
\* the new locals and the appended candle.
GenIteration(st, L) ==
    LET s1 == RngNext(st)
        dur1 == L.regime_duration + 1
        switch == 500 * RngU(s1) < 16 * (10 + dur1)    \* u < 0.02 + dur/500
        s2 == IF switch THEN RngNext(s1) ELSE s1
        regime2 == IF switch
                   THEN Choices(regime_names, TransitionWeights(L.current_regime), RngU(s2))
                   ELSE L.current_regime
        dur2 == IF switch THEN 0 ELSE dur1
        drift == regimes[regime2][1]
        hourly_vol == (BASE_HOURLY_VOL * regimes[regime2][2]) \div 10
        s3 == RngNext(s2)
        tail == 20 * RngU(s3) < 16                      \* u < 0.05
        s4 == RngNext(s3)
        ret == Gauss(drift, IF tail THEN hourly_vol * 3 ELSE hourly_vol, RngU(s4))
        open_price == L.price
        close_price == open_price + MulDiv(open_price, ret, 10000)
        s5 == RngNext(s4)
        intra_vol == Abs(ret) + (hourly_vol * (48 + 12 * RngU(s5))) \div 160
        s6 == RngNext(s5)
        s7 == RngNext(s6)
        mx == Max(open_price, close_price)
        mn == Min(open_price, close_price)
        hi0 == IF close_price >= open_price
               THEN mx + MulDiv(mx, (intra_vol * 5 * RngU(s6)) \div 160, 10000)
               ELSE mx + MulDiv(mx, (intra_vol * 3 * RngU(s6)) \div 160, 10000)
        lo0 == IF close_price >= open_price
               THEN mn - MulDiv(mn, (intra_vol * 3 * RngU(s7)) \div 160, 10000)
               ELSE mn - MulDiv(mn, (intra_vol * 5 * RngU(s7)) \div 160, 10000)
        high == Max(hi0, Max(open_price, close_price))
        low == Min(lo0, Min(open_price, close_price))
        s8 == RngNext(s7)
        candle == [open_time |-> L.h,
                   open |-> Round2(open_price), high |-> Round2(high),
                   low |-> Round2(low), close |-> Round2(close_price),
                   volume |-> 50000 + 28125 * RngU(s8)]
        price2 == IF close_price > 80000000 THEN MulDiv(close_price, 9999, 10000)
                  ELSE IF close_price < 20000000 THEN MulDiv(close_price, 10001, 10000)
                  ELSE close_price
    IN [rng |-> s8,
        locals |-> [L EXCEPT !.h = L.h + 1, !.price = price2,
                             !.current_regime = regime2, !.regime_duration = dur2,
                             !.candles = Append(L.candles, candle)]]

\* the seeds generate_multi_seed_data hands out: seed * 17 + 42
PathSeed(i) == i * 17 + 42
Seeds == {PathSeed(i) : i \in 0..(NumSeeds - 1)}

GenIdle == [pc |-> "idle", seed |-> 0, h |-> 0, price |-> 0,
            current_regime |-> "bull_trend", regime_duration |-> 0, candles |-> <<>>]

\* a call enters: random.seed(seed) reseeds the module-global generator
GenCall(g, seed) ==
    /\ gen[g].pc = "idle"
    /\ grng' = RngSeed(seed)
    /\ gen' = [gen EXCEPT ![g] = [pc |-> "run", seed |-> seed, h |-> 0,
                                  price |-> START_PRICE,
                                  current_regime |-> "bull_trend",
                                  regime_duration |-> 0, candles |-> <<>>]]
    /\ UNCHANGED <<tradeVars, btVars, aggVars, yearVars, sweepVars, kellyVars, fnVars, rankVars, orchVars, agentVars>>

\* one loop iteration of a call, drawing from the module-global generator
GenStep(g) ==
    /\ gen[g].pc = "run"
    /\ gen[g].h < Hours
    /\ LET r == GenIteration(grng, gen[g])
       IN /\ grng' = r.rng
          /\ gen' = [gen EXCEPT ![g] = r.locals]
    /\ UNCHANGED <<tradeVars, btVars, aggVars, yearVars, sweepVars, kellyVars, fnVars, rankVars, orchVars, agentVars>>

\* the loop is over: return candles
GenReturn(g) ==
    /\ gen[g].pc = "run"
    /\ gen[g].h = Hours
    /\ gen' = [gen EXCEPT ![g].pc = "done"]
    /\ UNCHANGED <<grng, tradeVars, btVars, aggVars, yearVars, sweepVars, kellyVars, fnVars, rankVars, orchVars, agentVars>>

IdleGen ==
    /\ grng = 0
    /\ gen = [g \in Gens |-> GenIdle]

InitGen == IdleGen

NextGen ==
    \/ \E g \in Gens, seed \in Seeds : GenCall(g, seed)
    \/ \E g \in Gens : GenStep(g)
    \/ \E g \in Gens : GenReturn(g)


(***************************************************************************)
(* Indicators, strike and fees of backtest.py.                             *)
(* Candle prices are in cents; contract prices in pips (1/10000 dollar);   *)
(* volatility in hundredths of a percent; probabilities in percent; PnL    *)
(* in units of 1/2000000 dollar (so that the 1.5 % fee is exact).          *)
(***************************************************************************)
STRIKE_INCREMENT == 25000       \* 250 dollars, in cents
PIP == 10000                    \* contract price 1.0
PNL_PER_PIP == 200              \* PnL units per pip
FEE_PER_PIP == 3                \* TAKER_FEE_PCT = 1.5 % of one pip, in PnL units

\* calc_volatility(candle): (high - low) / open * 100
calc_volatility(candle) ==
    IF candle.open = 0 THEN 0
    ELSE IF candle.open < 100 THEN ((candle.high - candle.low) * 10000) \div candle.open
    ELSE ((candle.high - candle.low) * 100) \div (candle.open \div 100)

\* calc_net_pnl charging the exit fee on every exit
calc_net_pnl_exit_fee_always(contracts, entry_price, exit_price, exit_type) ==
    contracts * exit_price * (PNL_PER_PIP - FEE_PER_PIP)
        - contracts * entry_price * (PNL_PER_PIP + FEE_PER_PIP)

\* calc_net_pnl(contracts, entry_price, exit_price, exit_type)
calc_net_pnl(contracts, entry_price, exit_price, exit_type) ==
    LET entry_cost == contracts * entry_price
        entry_fee == entry_cost * FEE_PER_PIP
        total_entry_cost == entry_cost * PNL_PER_PIP + entry_fee
        exit_revenue == contracts * exit_price
    IN IF exit_type = "early"
       THEN (exit_revenue * PNL_PER_PIP - exit_revenue * FEE_PER_PIP) - total_entry_cost
       ELSE exit_revenue * PNL_PER_PIP - total_entry_cost

\* the largest r with r * r <= n, by bisection on lo..hi
RECURSIVE IsqrtIn(_, _, _)
IsqrtIn(n, lo, hi) ==
    IF lo >= hi THEN lo
    ELSE LET mid == (lo + hi + 1) \div 2
         IN IF mid * mid <= n THEN IsqrtIn(n, mid, hi) ELSE IsqrtIn(n, lo, mid - 1)
Isqrt(n) == IsqrtIn(n, 0, 46340)

\* math.sqrt(max(minutes / 60, 0.01)), in thousandths
SqrtHours(minutes_remaining) == Isqrt(Max((minutes_remaining * 1000000) \div 60, 10000))

\* current_price * (volatility / 100) * sqrt(time_hours), in the unit of the price
ExpectedMove(current_price, volatility, minutes_remaining) ==
    MulDiv(MulDiv(current_price, volatility, 10000), SqrtHours(minutes_remaining), 1000)

\* calc_risk_of_ruin: the eight-band z-score lookup.  z <= k is decided as
\* distance <= k * expected_move; a positive expected move is at least one unit.
calc_risk_of_ruin(current_price, strike, volatility, minutes_remaining) ==
    LET distance == current_price - strike
        positive == current_price > 0 /\ volatility > 0
        expected_move == Max(1, ExpectedMove(current_price, volatility, minutes_remaining))
        \* z <= j / 2
        ZLe(j) == IF positive THEN 2 * distance <= j * expected_move ELSE 0 <= j
    IN IF ZLe(-4) THEN 98
       ELSE IF ZLe(-2) THEN 84
       ELSE IF ZLe(-1) THEN 69
       ELSE IF ZLe(0) THEN 50
       ELSE IF ZLe(1) THEN 31
       ELSE IF ZLe(2) THEN 16
       ELSE IF ZLe(3) THEN 7
       ELSE IF ZLe(4) THEN 2
       ELSE 1

\* estimate_contract_price(distance_from_strike, minutes_remaining);
\* the distance is in half cents, the result in pips
estimate_contract_price(distance_from_strike, minutes_remaining) ==
    IF distance_from_strike <= 0 THEN 3000
    ELSE LET base == Min(9500, 5000 + distance_from_strike \div 20)
         IN Min(9900, (base * (180 - minutes_remaining)) \div 120)

\* The quantities simulate_trade of backtest.py computes from the candle after
\* entry before it decides: at 30 minutes remaining from the mid price
\* (open + close) / 2, at 10 minutes remaining from the close.  Inside, prices
\* are doubled (half cents) so that the mid price is exact.  simulate_exit of
\* backtest_real.py computes the same quantities with risk_of_ruin,
\* implied_price and calc_pnl, which repeat calc_risk_of_ruin,
\* estimate_contract_price and calc_net_pnl.
ExitMetrics(entry_price, strike, contracts, settlement_candle, volatility) ==
    LET mid_price == settlement_candle.open + settlement_candle.close
        distance_mid == mid_price - 2 * strike
        ror == calc_risk_of_ruin(mid_price, 2 * strike, volatility, 30)
        implied_price == estimate_contract_price(distance_mid, 30)
        settle_win_pnl == calc_net_pnl(contracts, entry_price, PIP, "settlement")
        settle_lose_pnl == calc_net_pnl(contracts, entry_price, 0, "settlement")
        late_price == 2 * settlement_candle.close
        late_distance == late_price - 2 * strike
        late_ror == calc_risk_of_ruin(late_price, 2 * strike, volatility, 10)
        late_implied == estimate_contract_price(late_distance, 10)
    IN [ror |-> ror,
        early_exit_pnl |-> calc_net_pnl(contracts, entry_price, implied_price, "early"),
        settle_win_pnl |-> settle_win_pnl,
        settle_lose_pnl |-> settle_lose_pnl,
        settle_ev |-> MulDiv(settle_win_pnl, 100 - ror, 100)
                        + MulDiv(settle_lose_pnl, ror, 100),
        late_ror |-> late_ror,
        late_exit_pnl |-> calc_net_pnl(contracts, entry_price, late_implied, "early"),
        late_settle_ev |-> MulDiv(settle_win_pnl, 100 - late_ror, 100)
                             + MulDiv(settle_lose_pnl, late_ror, 100)]

\* the chain of if-statements of simulate_trade with the checks at 10 minutes
\* remaining tested before the checks at 30 minutes remaining
ExitRuleLateFirst(m) ==
    IF m.late_ror >= 30 /\ m.late_settle_ev <= MulDiv(m.late_exit_pnl, 6, 5)
    THEN "high_risk_late"
    ELSE IF m.ror >= 50 THEN "critical_risk"
    ELSE IF m.settle_ev < m.early_exit_pnl /\ m.early_exit_pnl > 0 THEN "negative_ev_hold"
    ELSE "settle"

\* the chain of if-statements of simulate_trade: the first check that fires
\* returns, "settle" when the code falls through to the settlement
ExitRule(m) ==
    IF m.ror >= 50 THEN "critical_risk"
    ELSE IF m.settle_ev < m.early_exit_pnl /\ m.early_exit_pnl > 0 THEN "negative_ev_hold"
    ELSE IF m.late_ror >= 30 /\ m.late_settle_ev <= MulDiv(m.late_exit_pnl, 6, 5)
    THEN "high_risk_late"
    ELSE "settle"

\* simulate_trade(entry_price, strike, contracts, candles_after, volatility) of
\* backtest.py
simulate_trade(entry_price, strike, contracts, candles_after, volatility) ==
    IF candles_after = <<>> THEN [outcome |-> "no_data", pnl |-> 0]
    ELSE
    LET settlement_candle == candles_after[1]
        settlement_price == settlement_candle.close
        m == ExitMetrics(entry_price, strike, contracts, settlement_candle, volatility)
        rule == ExitRule(m)
    IN IF rule = "critical_risk"
       THEN [outcome |-> "early_exit_critical", pnl |-> m.early_exit_pnl,
             settlement_price |-> settlement_price, exit_reason |-> "critical_risk"]
       ELSE IF rule = "negative_ev_hold"
       THEN [outcome |-> "early_exit_ev", pnl |-> m.early_exit_pnl,
             settlement_price |-> settlement_price, exit_reason |-> "negative_ev_hold"]
       ELSE IF rule = "high_risk_late"
       THEN [outcome |-> "early_exit_high_risk", pnl |-> m.late_exit_pnl,
             settlement_price |-> settlement_price, exit_reason |-> "high_risk_late"]
       ELSE IF settlement_price > strike
       THEN [outcome |-> "win", pnl |-> m.settle_win_pnl,
             settlement_price |-> settlement_price]
       ELSE [outcome |-> "loss", pnl |-> m.settle_lose_pnl,
             settlement_price |-> settlement_price]

\* simulate_exit(entry_px, strike, contracts, next_c, vol) of backtest_real.py:
\* the trade was entered at the open of the hour, next_c["open"] settles it.
simulate_exit(entry_px, strike, contracts, next_c, vol) ==
    LET settle_px == next_c.open
        m == ExitMetrics(entry_px, strike, contracts, next_c, vol)
    IN IF m.ror >= 50 THEN [pnl |-> m.early_exit_pnl, outcome |-> "early_critical"]
       ELSE IF m.settle_ev < m.early_exit_pnl /\ m.early_exit_pnl > 0
       THEN [pnl |-> m.early_exit_pnl, outcome |-> "early_neg_ev"]
       ELSE IF m.late_ror >= 30 /\ m.late_settle_ev <= MulDiv(m.late_exit_pnl, 6, 5)
       THEN [pnl |-> m.late_exit_pnl, outcome |-> "early_high_risk"]
       ELSE IF settle_px > strike THEN [pnl |-> m.settle_win_pnl, outcome |-> "win"]
       ELSE [pnl |-> m.settle_lose_pnl, outcome |-> "loss"]

\* The settlement of one accepted signal in simulate_strategy of
\* experiment_kelly_criterion.py (the same lines stand in
\* experiment_aggressive_enhanced.py): cost is paid, the next candle's close
\* settles the contract, a won contract pays 1 dollar.  Amounts in pips.
STARTING_CAPITAL == 1000000     \* 100.0 dollars

SettleStrategy(capital, signal, next_candle) ==
    LET cost == signal.entry_price * signal.contracts
        settlement_price == next_candle.close
        won == IF signal.direction = "yes"
               THEN settlement_price >= signal.strike
               ELSE settlement_price < signal.strike
        payout == IF won THEN signal.contracts * PIP ELSE 0
    IN IF capital < cost
       THEN [traded |-> FALSE, won |-> FALSE, pnl |-> 0, capital |-> capital]
       ELSE [traded |-> TRUE, won |-> won, pnl |-> payout - cost,
             capital |-> capital - cost + payout]

(***************************************************************************)
(* One trade handed to a trade simulator.                                  *)
(***************************************************************************)
TradeStrike == 170 * STRIKE_INCREMENT     \* a strike: 42500 dollars
\* open and close of the candles after entry, in cents relative to the strike
TradeOffsets == {-5000, 0, 5000, 13000, 70000, 130000}
TradeVols == {0, 60, 100}               \* volatility of the entry candle
\* (entry_price, contracts) of check_conservative and check_aggressive
TradeEntries == {<<6000, 16>>, <<4000, 50>>}

MkCandle(t, o, c, wick) ==
    [open_time |-> t, open |-> o, close |-> c,
     high |-> Max(o, c) + wick, low |-> Min(o, c) - wick, volume |-> 100000]

TradeCandles ==
    {MkCandle(0, TradeStrike + o, TradeStrike + c, 2000) : o, c \in TradeOffsets}

TradeCandlesAfter ==
    {<<>>} \cup {<<c>> : c \in TradeCandles}
           \cup {<<c, MkCandle(1, c.close, c.close, 0)>> : c \in TradeCandles}

InitTrade ==
    \E e \in TradeEntries, ca \in TradeCandlesAfter, v \in TradeVols :
        tr = [pc |-> "ready", sim |-> "none",
              entry_price |-> e[1], strike |-> TradeStrike, contracts |-> e[2],
              candles_after |-> ca, volatility |-> v,
              result |-> [outcome |-> "none", pnl |-> 0]]

IdleTrade ==
    tr = [pc |-> "idle", sim |-> "none", entry_price |-> 0, strike |-> 0,
          contracts |-> 0, candles_after |-> <<>>, volatility |-> 0,
          result |-> [outcome |-> "none", pnl |-> 0]]

\* backtest.py: result = simulate_trade(...)
SimulateTrade ==
    /\ tr.pc = "ready"
    /\ tr' = [tr EXCEPT !.pc = "resolved", !.sim = "backtest",
                !.result = simulate_trade(tr.entry_price, tr.strike, tr.contracts,
                                          tr.candles_after, tr.volatility)]
    /\ UNCHANGED <<genVars, btVars, aggVars, yearVars, sweepVars, kellyVars, fnVars, rankVars, orchVars, agentVars>>

\* backtest_real.py: pnl, out = simulate_exit(...); run always has a next candle
SimulateExit ==
    /\ tr.pc = "ready"
    /\ tr.candles_after # <<>>
    /\ tr' = [tr EXCEPT !.pc = "resolved", !.sim = "backtest_real",
                !.result = simulate_exit(tr.entry_price, tr.strike, tr.contracts,
                                         tr.candles_after[1], tr.volatility)]
    /\ UNCHANGED <<genVars, btVars, aggVars, yearVars, sweepVars, kellyVars, fnVars, rankVars, orchVars, agentVars>>

\* experiment_kelly_criterion.py: one settled signal of simulate_strategy
SimulateStrategy ==
    /\ tr.pc = "ready"
    /\ tr.candles_after # <<>>
    /\ LET signal == [entry_price |-> tr.entry_price, strike |-> tr.strike,
                      contracts |-> tr.contracts, direction |-> "yes"]
           r == SettleStrategy(STARTING_CAPITAL, signal, tr.candles_after[1])
       IN tr' = [tr EXCEPT !.pc = "resolved", !.sim = "kelly",
                    !.result = [outcome |-> IF r.won THEN "win" ELSE "loss",
                                pnl |-> r.pnl, capital |-> r.capital]]
    /\ UNCHANGED <<genVars, btVars, aggVars, yearVars, sweepVars, kellyVars, fnVars, rankVars, orchVars, agentVars>>

NextTrade == SimulateTrade \/ SimulateExit \/ SimulateStrategy

(***************************************************************************)
(* Indicators and the two deployed strategies of backtest.py.              *)
(* A moving average is kept as twelve times its value (the sum of the      *)
(* closes times 12 / period), returns and candle volatility in hundredths  *)
(* of a percent, the price position in hundredths of a percent.            *)
(***************************************************************************)
RECURSIVE SumClose(_, _, _)
SumClose(candles, from, to) ==
    IF from > to THEN 0 ELSE candles[from].close + SumClose(candles, from + 1, to)

\* calc_sma(candles, period), times 12
calc_sma(candles, period) ==
    IF Len(candles) < period THEN 0
    ELSE SumClose(candles, Len(candles) - period + 1, Len(candles)) * (12 \div period)

\* (a - b) / b * 100 in hundredths of a percent, b > 0
PctChange(a, b) ==
    IF b < 100 THEN ((a - b) * 10000) \div b ELSE ((a - b) * 100) \div (b \div 100)

\* calc_price_position(candle)
calc_price_position(candle) ==
    LET rng == candle.high - candle.low
    IN IF rng = 0 THEN 5000 ELSE MulDiv(candle.close - candle.low, 10000, rng)

\* calc_momentum_3h(candles, current_price)
calc_momentum_3h(candles, current_price) ==
    IF Len(candles) < 3 THEN 0
    ELSE LET three_ago == candles[Len(candles) - 2].close
         IN IF three_ago = 0 THEN 0 ELSE PctChange(current_price, three_ago)

\* calc_hour_return(candle, current_price)
calc_hour_return(candle, current_price) ==
    IF candle.open = 0 THEN 0 ELSE PctChange(current_price, candle.open)

\* calc_strike(btc_price, "OTM"): math.floor(btc_price / STRIKE_INCREMENT) * STRIKE_INCREMENT
calc_strike(btc_price) == (btc_price \div STRIKE_INCREMENT) * STRIKE_INCREMENT

\* sma3 > sma6 or (sma6 > 0 and (sma6 - sma3) / sma6 < 0.001)
LoosenedTrend(fast, slow) ==
    fast > slow \/ (slow > 0 /\ slow - fast <= (slow - 1) \div 1000)

\* the strike filter with the comparison turned round
StrikeOkReversed(distance_to_strike, min_strike_distance) ==
    distance_to_strike <= min_strike_distance

\* strike_ok = distance_to_strike >= min_strike_distance
StrikeOk(distance_to_strike, min_strike_distance) ==
    distance_to_strike >= min_strike_distance

\* check_conservative(candles, current_price, hour_utc, min_strike_distance)
check_conservative(candles, current_price, hour_utc, min_strike_distance) ==
    LET is_market == 14 <= hour_utc /\ hour_utc < 21
        sma3 == calc_sma(candles, 3)
        sma6 == calc_sma(candles, 6)
        sma12 == calc_sma(candles, 12)
        vol == calc_volatility(candles[Len(candles)])
        pos == calc_price_position(candles[Len(candles)])
        short_trend == LoosenedTrend(sma3, sma6)
        medium_trend == sma6 > sma12
        vol_ok == 50 <= vol /\ vol <= 200
        strong == pos > 6000
        strike == calc_strike(current_price)
        distance_to_strike == current_price - strike
        strike_ok == StrikeOk(distance_to_strike, min_strike_distance)
        passed == is_market /\ short_trend /\ medium_trend /\ vol_ok /\ strong /\ strike_ok
    IN [signal |-> passed,
        strike |-> IF passed THEN strike ELSE -1,
        entry_price |-> 6000,
        contracts |-> (10 * PIP) \div 6000,
        checks |-> [market_hours |-> is_market, short_trend |-> short_trend,
                    medium_trend |-> medium_trend, volatility |-> vol_ok,
                    position |-> strong, strike_distance |-> strike_ok],
        strike_dist |-> distance_to_strike]

\* check_aggressive(candles, current_price, hour_utc, min_strike_distance)
check_aggressive(candles, current_price, hour_utc, min_strike_distance) ==
    LET is_market == 14 <= hour_utc /\ hour_utc < 21
        sma3 == calc_sma(candles, 3)
        sma6 == calc_sma(candles, 6)
        sma12 == calc_sma(candles, 12)
        mom == calc_momentum_3h(candles, current_price)
        hr == calc_hour_return(candles[Len(candles)], current_price)
        short_trend == LoosenedTrend(sma3, sma6)
        medium_trend == sma6 > sma12
        strong_mom == mom > 100
        hour_up == hr > 30
        strike == calc_strike(current_price)
        distance_to_strike == current_price - strike
        strike_ok == StrikeOk(distance_to_strike, min_strike_distance)
        passed == is_market /\ short_trend /\ medium_trend /\ strong_mom /\ hour_up /\ strike_ok
    IN [signal |-> passed,
        strike |-> IF passed THEN strike ELSE -1,
        entry_price |-> 4000,
        contracts |-> (20 * PIP) \div 4000,
        checks |-> [market_hours |-> is_market, short_trend |-> short_trend,
                    medium_trend |-> medium_trend, momentum |-> strong_mom,
                    hour_return |-> hour_up, strike_distance |-> strike_ok],
        strike_dist |-> distance_to_strike]

(***************************************************************************)
(* run_backtest(candles, strategies) of backtest.py, one step per          *)
(* (candle, strategy) pair of its two nested loops.                        *)
(***************************************************************************)
PathLen == 15           \* len(candles) of the paths handed to run_backtest
HistoryLen == 12        \* the loop starts at candle 12: range(12, len(candles) - 1)

\* the strategies dict of __main__, in insertion order, for two distances
Strategies ==
    <<[name |-> "Conservative (Deployed)", fn |-> "check_conservative", min_strike_dist |-> 0],
      [name |-> "Aggressive (Deployed)", fn |-> "check_aggressive", min_strike_dist |-> 0],
      [name |-> "Conservative (>=$100)", fn |-> "check_conservative", min_strike_dist |-> 10000],
      [name |-> "Aggressive (>=$100)", fn |-> "check_aggressive", min_strike_dist |-> 10000]>>

StrategyNames == {Strategies[k].name : k \in 1..Len(Strategies)}

CheckNames == {"market_hours", "short_trend", "medium_trend", "volatility", "position",
               "momentum", "hour_return", "strike_distance"}

\* the candle paths: twelve rising hourly candles, then free candles
StartHours == {2, 8}        \* hour of day of the first candle
FreeCandles ==
    {<<4228000, 4252000>>, <<4228000, 4270000>>, <<4380000, 4330000>>,
     <<4390000, 4240000>>, <<4250000, 4250000>>, <<4228000, 4204000>>}

\* the rising candles: from 39400 dollars, 240 dollars up per hour, wicks of 20
PathPrefix(start) ==
    [j \in 1..HistoryLen |->
        MkCandle(start + j - 1, 3940000 + (j - 1) * 24000, 3940000 + j * 24000, 2000)]

RECURSIVE PathsFrom(_, _)
PathsFrom(start, n) ==
    IF n <= HistoryLen THEN {SubSeq(PathPrefix(start), 1, n)}
    ELSE {Append(p, MkCandle(start + n - 1, f[1], f[2], IF f[1] = f[2] THEN 0 ELSE 2000)) :
            p \in PathsFrom(start, n - 1), f \in FreeCandles}

BacktestPaths == UNION {PathsFrom(start, PathLen) : start \in StartHours}

EmptyResult ==
    [signals |-> 0, trades |-> 0, wins |-> 0, losses |-> 0, early_exits |-> 0,
     total_pnl |-> 0, max_drawdown |-> 0, pnl_series |-> <<>>, win_pnls |-> <<>>,
     loss_pnls |-> <<>>, monthly_signals |-> <<>>,
     criteria_fail_counts |-> [c \in CheckNames |-> 0],
     consecutive_losses_max |-> 0, trade_details |-> <<>>, strike_dist_at_entry |-> <<>>]

RECURSIVE SeqMax(_)
SeqMax(q) == IF Len(q) = 1 THEN q[1] ELSE Max(q[1], SeqMax(Tail(q)))

\* datetime.fromtimestamp(open_time).hour and strftime("%Y-%m"); open_time is
\* in hours since midnight of the first day of a month of 30 days
HourUtc(candle) == candle.open_time % 24
MonthKey(candle) == candle.open_time \div 720

\* monthly_signals: a list of (month_key, count) pairs in insertion order
MonthIndex(ms, mk) ==
    IF \E j \in 1..Len(ms) : ms[j][1] = mk
    THEN CHOOSE j \in 1..Len(ms) : ms[j][1] = mk
    ELSE 0
MonthTouch(ms, mk) == IF MonthIndex(ms, mk) = 0 THEN Append(ms, <<mk, 0>>) ELSE ms
MonthAdd(ms, mk) ==
    LET t == MonthTouch(ms, mk)
    IN [t EXCEPT ![MonthIndex(t, mk)] = <<mk, t[MonthIndex(t, mk)][2] + 1>>]

\* cfg["fn"](history, current_price, hour_utc, min_strike_distance=...)
CallStrategy(cfg, history, current_price, hour_utc) ==
    IF cfg.fn = "check_conservative"
    THEN check_conservative(history, current_price, hour_utc, cfg.min_strike_dist)
    ELSE check_aggressive(history, current_price, hour_utc, cfg.min_strike_dist)

\* the locals of the loop body at candle index i (0-based, as in the code)
BtCandle(candles, i) == candles[i + 1]
BtHistory(candles, i) == SubSeq(candles, Max(0, i - 12) + 1, i + 1)
BtCandlesAfter(candles, i) == SubSeq(candles, i + 2, Len(candles))
Take2(q) == SubSeq(q, 1, Min(2, Len(q)))

\* a loop over range(12, len(candles)): the last candle has no candle after it
BtLastIndexWholePath(candles) == Len(candles) - 1

\* range(12, len(candles) - 1): the last index of the loop
BtLastIndex(candles) == Len(candles) - 2

\* the trade bookkeeping after a resolved trade
RecordTrade(r, candle, sig, result) ==
    LET pnl == result.pnl
        total == r.total_pnl + pnl
        series == Append(r.pnl_series, total)
        dd == SeqMax(series) - total
    IN [r EXCEPT
          !.trades = r.trades + 1,
          !.total_pnl = total,
          !.pnl_series = series,
          !.early_exits = IF result.outcome \in
                              {"early_exit_critical", "early_exit_ev", "early_exit_high_risk"}
                          THEN r.early_exits + 1 ELSE r.early_exits,
          !.wins = IF pnl >= 0 THEN r.wins + 1 ELSE r.wins,
          !.win_pnls = IF pnl >= 0 THEN Append(r.win_pnls, pnl) ELSE r.win_pnls,
          !.losses = IF pnl >= 0 THEN r.losses ELSE r.losses + 1,
          !.loss_pnls = IF pnl >= 0 THEN r.loss_pnls ELSE Append(r.loss_pnls, pnl),
          !.max_drawdown = IF dd > r.max_drawdown THEN dd ELSE r.max_drawdown,
          !.trade_details = Append(r.trade_details,
                                [open_time |-> candle.open_time, price |-> candle.close,
                                 strike |-> sig.strike, strike_dist |-> sig.strike_dist,
                                 outcome |-> result.outcome, pnl |-> pnl])]

\* the consecutive-loss scan after the loops
RECURSIVE ConsecScan(_, _, _, _)
ConsecScan(details, j, current_consec, max_consec) ==
    IF j > Len(details) THEN max_consec
    ELSE IF details[j].pnl < 0
         THEN ConsecScan(details, j + 1, current_consec + 1, Max(max_consec, current_consec + 1))
         ELSE ConsecScan(details, j + 1, 0, max_consec)

IdleBacktest ==
    bt = [pc |-> "idle", candles |-> <<>>, i |-> 0, k |-> 0,
          results |-> [n \in StrategyNames |-> EmptyResult],
          last |-> [outcome |-> "none", pnl |-> 0], calls |-> 0]

\* run_backtest is entered: results initialised, the loop starts at index 12
InitBacktest ==
    \E path \in BacktestPaths :
        bt = [pc |-> "loop", candles |-> path, i |-> HistoryLen, k |-> 1,
              results |-> [n \in StrategyNames |-> EmptyResult],
              last |-> [outcome |-> "none", pnl |-> 0], calls |-> 0]

BtAdvance(b) ==
    IF b.k < Len(Strategies) THEN [b EXCEPT !.k = b.k + 1]
    ELSE IF b.i < BtLastIndex(b.candles) THEN [b EXCEPT !.i = b.i + 1, !.k = 1]
    ELSE [b EXCEPT !.pc = "post"]

BtSig(b) ==
    CallStrategy(Strategies[b.k], BtHistory(b.candles, b.i),
                 BtCandle(b.candles, b.i).close, HourUtc(BtCandle(b.candles, b.i)))

\* the strategy gives no signal: the failed checks are counted
BacktestNoSignal ==
    /\ bt.pc = "loop"
    /\ bt.i <= BtLastIndex(bt.candles)
    /\ ~BtSig(bt).signal
    /\ LET sig == BtSig(bt)
           name == Strategies[bt.k].name
           r == bt.results[name]
           r2 == [r EXCEPT
                    !.monthly_signals = MonthTouch(r.monthly_signals,
                                                   MonthKey(BtCandle(bt.candles, bt.i))),
                    !.criteria_fail_counts =
                        [c \in CheckNames |->
                            IF c \in DOMAIN sig.checks /\ ~sig.checks[c]
                            THEN r.criteria_fail_counts[c] + 1
                            ELSE r.criteria_fail_counts[c]]]
       IN bt' = BtAdvance([bt EXCEPT !.results[name] = r2])
    /\ UNCHANGED <<genVars, tradeVars, aggVars, yearVars, sweepVars, kellyVars, fnVars, rankVars, orchVars, agentVars>>

\* the strategy signals: the signal is counted and the trade simulated
BacktestSignal ==
    /\ bt.pc = "loop"
    /\ bt.i <= BtLastIndex(bt.candles)
    /\ BtSig(bt).signal
    /\ LET sig == BtSig(bt)
           name == Strategies[bt.k].name
           candle == BtCandle(bt.candles, bt.i)
           r == bt.results[name]
           r1 == [r EXCEPT
                    !.signals = r.signals + 1,
                    !.monthly_signals = MonthAdd(r.monthly_signals, MonthKey(candle)),
                    !.strike_dist_at_entry = Append(r.strike_dist_at_entry, sig.strike_dist)]
           result == simulate_trade(sig.entry_price, sig.strike, sig.contracts,
                                    Take2(BtCandlesAfter(bt.candles, bt.i)),
                                    calc_volatility(candle))
           r2 == IF result.outcome = "no_data" THEN r1
                 ELSE RecordTrade(r1, candle, sig, result)
       IN bt' = BtAdvance([bt EXCEPT !.results[name] = r2, !.last = result,
                                     !.calls = bt.calls + 1])
    /\ UNCHANGED <<genVars, tradeVars, aggVars, yearVars, sweepVars, kellyVars, fnVars, rankVars, orchVars, agentVars>>

\* after the loops: consecutive losses per strategy, return results
BacktestReturn ==
    /\ bt.pc = "post"
    /\ bt' = [bt EXCEPT !.pc = "done",
                !.results = [n \in StrategyNames |->
                    [bt.results[n] EXCEPT !.consecutive_losses_max =
                        ConsecScan(bt.results[n].trade_details, 1, 0, 0)]]]
    /\ UNCHANGED <<genVars, tradeVars, aggVars, yearVars, sweepVars, kellyVars, fnVars, rankVars, orchVars, agentVars>>

NextBacktest == BacktestNoSignal \/ BacktestSignal \/ BacktestReturn

(***************************************************************************)
(* aggregate_results(all_results) of backtest.py.  Averages of counts are  *)
(* in hundredths, win rates and profit factors in hundredths, averages of  *)
(* PnL in the unit of PnL.                                                 *)
(***************************************************************************)
NumPaths == 3           \* len(all_results), NUM_PATHS of __main__

RECURSIVE SeqSum(_)
SeqSum(q) == IF q = <<>> THEN 0 ELSE q[1] + SeqSum(Tail(q))

RECURSIVE SeqMin(_)
SeqMin(q) == IF Len(q) = 1 THEN q[1] ELSE Min(q[1], SeqMin(Tail(q)))

RECURSIVE Concat(_)
Concat(qq) == IF qq = <<>> THEN <<>> ELSE qq[1] \o Concat(Tail(qq))

\* sorted(q)
RECURSIVE Sorted(_)
Sorted(q) ==
    IF q = <<>> THEN <<>>
    ELSE LET j == CHOOSE j \in 1..Len(q) : \A k \in 1..Len(q) : q[j] <= q[k]
         IN <<q[j]>> \o Sorted([k \in 1..(Len(q) - 1) |-> IF k < j THEN q[k] ELSE q[k + 1]])

AvgCount(q) == (SeqSum(q) * 100) \div Len(q)
AvgPnl(q) == SeqSum(q) \div Len(q)

\* the entry of agg for one strategy, from runs = [r[name] for r in all_results]
AggregateRuns(runs) ==
    LET n == Len(runs)
        trades_list == [j \in 1..n |-> runs[j].trades]
        signals_list == [j \in 1..n |-> runs[j].signals]
        pnl_list == [j \in 1..n |-> runs[j].total_pnl]
        wr_list == [j \in 1..n |->
                        IF runs[j].trades > 0
                        THEN (runs[j].wins * 10000) \div runs[j].trades ELSE 0]
        dd_list == [j \in 1..n |-> runs[j].max_drawdown]
        early_list == [j \in 1..n |-> runs[j].early_exits]
        consec_list == [j \in 1..n |-> runs[j].consecutive_losses_max]
        avg_win_list == [j \in 1..n |->
                            IF runs[j].win_pnls # <<>> THEN AvgPnl(runs[j].win_pnls) ELSE 0]
        avg_loss_list == [j \in 1..n |->
                            IF runs[j].loss_pnls # <<>> THEN AvgPnl(runs[j].loss_pnls) ELSE 0]
        pf_list == [j \in 1..n |->
                        IF runs[j].loss_pnls # <<>> /\ SeqSum(runs[j].loss_pnls) # 0
                        THEN MulDiv(Abs(SeqSum(runs[j].win_pnls)), 100,
                                    Abs(SeqSum(runs[j].loss_pnls)))
                        ELSE 0]
        all_dists == Concat([j \in 1..n |-> runs[j].strike_dist_at_entry])
    IN [runs |-> n,
        avg_signals |-> AvgCount(signals_list),
        avg_trades |-> AvgCount(trades_list),
        avg_win_rate |-> AvgPnl(wr_list),
        avg_pnl |-> AvgPnl(pnl_list),
        min_pnl |-> SeqMin(pnl_list),
        max_pnl |-> SeqMax(pnl_list),
        median_pnl |-> Sorted(pnl_list)[(n \div 2) + 1],
        avg_max_dd |-> AvgPnl(dd_list),
        worst_dd |-> SeqMax(dd_list),
        avg_early_exits |-> AvgCount(early_list),
        avg_max_consec_loss |-> AvgCount(consec_list),
        avg_win_per_trade |-> AvgPnl(avg_win_list),
        avg_loss_per_trade |-> AvgPnl(avg_loss_list),
        avg_profit_factor |-> AvgPnl(pf_list),
        avg_expectancy |-> IF SeqSum(trades_list) > 0
                           THEN SeqSum(pnl_list) \div SeqSum(trades_list) ELSE 0,
        positive_runs |-> Cardinality({j \in 1..n : pnl_list[j] > 0}),
        pnl_list |-> pnl_list,
        wr_list |-> wr_list,
        avg_strike_dist |-> IF all_dists # <<>> THEN AvgPnl(all_dists) ELSE 0,
        min_strike_dist |-> IF all_dists # <<>> THEN SeqMin(all_dists) ELSE 0,
        median_strike_dist |-> IF all_dists # <<>>
                               THEN Sorted(all_dists)[(Len(all_dists) \div 2) + 1] ELSE 0]

\* aggregate_results(all_results): strategy_names are the keys of the first result
aggregate_results(all_results) ==
    [name \in DOMAIN all_results[1] |->
        AggregateRuns([j \in 1..Len(all_results) |-> all_results[j][name]])]

\* what run_backtest returns for one strategy after the given trades
RECURSIVE ResultAfter(_, _)
ResultAfter(r, trades) ==
    IF trades = <<>>
    THEN [r EXCEPT !.consecutive_losses_max = ConsecScan(r.trade_details, 1, 0, 0)]
    ELSE LET t == trades[1]
             candle == MkCandle(Len(r.trade_details), t.price, t.price, 0)
             sig == [strike |-> calc_strike(t.price), strike_dist |-> t.price - calc_strike(t.price)]
             r1 == [r EXCEPT !.signals = r.signals + 1,
                             !.strike_dist_at_entry = Append(r.strike_dist_at_entry, sig.strike_dist)]
         IN ResultAfter(RecordTrade(r1, candle, sig, t), Tail(trades))

\* the trades of the conservative strategy: 16 contracts entered at 0.60
WinTrade(price) ==
    [outcome |-> "win", pnl |-> calc_net_pnl(16, 6000, PIP, "settlement"), price |-> price]
LossTrade(price) ==
    [outcome |-> "loss", pnl |-> calc_net_pnl(16, 6000, 0, "settlement"), price |-> price]

\* the results of single paths handed to aggregate_results
PathResults ==
    {[name \in StrategyNames |-> ResultAfter(EmptyResult, trades)] :
        trades \in {<<>>, <<WinTrade(4252000)>>, <<LossTrade(4270000)>>,
                    <<WinTrade(4252000), LossTrade(4260000)>>}}

IdleAggregate == ag = [pc |-> "idle", all_results |-> <<>>, agg |-> <<>>, again |-> <<>>]

InitAggregate ==
    \E all_results \in [1..NumPaths -> PathResults] :
        ag = [pc |-> "ready", all_results |-> all_results, agg |-> <<>>, again |-> <<>>]

\* __main__: agg = aggregate_results(all_results), the paths in the order run
AggregateResults ==
    /\ ag.pc = "ready"
    /\ ag' = [ag EXCEPT !.pc = "aggregated", !.agg = aggregate_results(ag.all_results)]
    /\ UNCHANGED <<genVars, tradeVars, btVars, yearVars, sweepVars, kellyVars, fnVars, rankVars, orchVars, agentVars>>

\* aggregate_results called on the same path results in another order
AggregateReordered ==
    /\ ag.pc = "aggregated"
    /\ \E perm \in Permutations(1..Len(ag.all_results)) :
          ag' = [ag EXCEPT !.pc = "done",
                    !.again = aggregate_results(
                                 [j \in 1..Len(ag.all_results) |-> ag.all_results[perm[j]]])]
    /\ UNCHANGED <<genVars, tradeVars, btVars, yearVars, sweepVars, kellyVars, fnVars, rankVars, orchVars, agentVars>>

NextAggregate == AggregateResults \/ AggregateReordered

(***************************************************************************)
(* backtest_combined.py: probability model, indicators and the combined    *)
(* signal check.  Probabilities and contract prices are in pips (1/10000), *)
(* returns in hundredths of a percent, ratios in hundredths, candle         *)
(* volatility in ten-thousandths of a percent.                             *)
(***************************************************************************)
\* normal_cdf(k / 100) for k = 0..400, in pips, tabulated from the formula of
\* normal_cdf (the polynomial in t = 1 / (1 + p x) times exp(-x x / 2))
NormalCdfTable ==
    <<5000, 5056, 5112, 5167, 5222, 5276, 5330, 5383, 5436, 5488, 5540, 5592, 5643,
      5693, 5743, 5793, 5842, 5891, 5939, 5987, 6035, 6082, 6129, 6175, 6221, 6267,
      6312, 6357, 6401, 6445, 6489, 6532, 6575, 6617, 6659, 6701, 6742, 6783, 6824,
      6864, 6904, 6943, 6983, 7021, 7060, 7098, 7136, 7173, 7210, 7247, 7283, 7319,
      7355, 7390, 7425, 7460, 7494, 7528, 7562, 7596, 7629, 7661, 7694, 7726, 7758,
      7789, 7820, 7851, 7882, 7912, 7942, 7971, 8001, 8030, 8058, 8087, 8115, 8143,
      8170, 8197, 8224, 8251, 8277, 8303, 8329, 8354, 8380, 8404, 8429, 8453, 8478,
      8501, 8525, 8548, 8571, 8594, 8616, 8638, 8660, 8682, 8703, 8724, 8745, 8766,
      8786, 8806, 8826, 8846, 8865, 8884, 8903, 8922, 8940, 8958, 8976, 8994, 9011,
      9028, 9045, 9062, 9079, 9095, 9111, 9127, 9143, 9158, 9173, 9188, 9203, 9218,
      9232, 9246, 9260, 9274, 9287, 9301, 9314, 9327, 9339, 9352, 9364, 9377, 9389,
      9400, 9412, 9423, 9435, 9446, 9457, 9467, 9478, 9488, 9499, 9509, 9519, 9528,
      9538, 9547, 9557, 9566, 9575, 9583, 9592, 9601, 9609, 9617, 9625, 9633, 9641,
      9649, 9656, 9664, 9671, 9678, 9685, 9692, 9699, 9705, 9712, 9718, 9724, 9731,
      9737, 9742, 9748, 9754, 9760, 9765, 9770, 9776, 9781, 9786, 9791, 9796, 9800,
      9805, 9810, 9814, 9819, 9823, 9827, 9831, 9835, 9839, 9843, 9847, 9851, 9854,
      9858, 9861, 9865, 9868, 9871, 9875, 9878, 9881, 9884, 9887, 9890, 9893, 9895,
      9898, 9901, 9903, 9906, 9908, 9910, 9913, 9915, 9917, 9919, 9922, 9924, 9926,
      9928, 9930, 9932, 9933, 9935, 9937, 9939, 9940, 9942, 9944, 9945, 9947, 9948,
      9950, 9951, 9952, 9954, 9955, 9956, 9957, 9959, 9960, 9961, 9962, 9963, 9964,
      9965, 9966, 9967, 9968, 9969, 9970, 9971, 9972, 9973, 9973, 9974, 9975, 9976,
      9977, 9977, 9978, 9979, 9979, 9980, 9980, 9981, 9982, 9982, 9983, 9983, 9984,
      9984, 9985, 9985, 9986, 9986, 9987, 9987, 9987, 9988, 9988, 9989, 9989, 9989,
      9990, 9990, 9990, 9991, 9991, 9991, 9992, 9992, 9992, 9992, 9993, 9993, 9993,
      9993, 9994, 9994, 9994, 9994, 9994, 9995, 9995, 9995, 9995, 9995, 9995, 9996,
      9996, 9996, 9996, 9996, 9996, 9996, 9997, 9997, 9997, 9997, 9997, 9997, 9997,
      9997, 9997, 9998, 9998, 9998, 9998, 9998, 9998, 9998, 9998, 9998, 9998, 9998,
      9998, 9998, 9998, 9999, 9999, 9999, 9999, 9999, 9999, 9999, 9999, 9999, 9999,
      9999, 9999, 9999, 9999, 9999, 9999, 9999, 9999, 9999, 9999, 9999, 9999, 9999,
      9999, 9999, 9999, 9999, 9999, 10000, 10000, 10000, 10000, 10000, 10000, 10000,
      10000, 10000, 10000, 10000, 10000, 10000, 10000, 10000, 10000, 10000, 10000, 10000>>

\* calc_volatility(candle) of backtest_combined.py (candle_volatility is the
\* same function): (high - low) / open * 100, in ten-thousandths of a percent
fine_volatility(candle) ==
    IF candle.open = 0 THEN 0
    ELSE IF candle.open < 1000 THEN ((candle.high - candle.low) * 1000000) \div candle.open
    ELSE ((candle.high - candle.low) * 1000) \div (candle.open \div 1000)

\* price * (vol / 100) * sqrt(time_hours) in the unit of the price (cents), vol
\* in ten-thousandths of a percent
FineExpectedMove(price, vol, mins_remaining) ==
    MulDiv(MulDiv(price \div 100, vol, 10000), SqrtHours(mins_remaining), 1000)

\* z = distance / expected_move in ten-thousandths, cut to [-4, 4]
ZScore(distance, expected_move) ==
    IF distance >= 4 * expected_move THEN 40000
    ELSE IF -distance >= 4 * expected_move THEN -40000
    ELSE IF expected_move <= 50000 THEN (distance * 10000) \div expected_move
    ELSE (distance * 1000) \div (expected_move \div 10)

\* linear interpolation in a table of steps of 0.01, x >= 0 in ten-thousandths
Interpolate(table, x) ==
    LET k == Min(400, x \div 100)
        lo == table[k + 1]
        hi == table[Min(400, k + 1) + 1]
    IN lo + ((hi - lo) * (x % 100)) \div 100

\* the table interpolated: normal_cdf(x) for x >= 0 in ten-thousandths
NormalCdfAt(x) == Interpolate(NormalCdfTable, x)

\* normal_cdf without the sign of x: 0.5 * (1 + y)
NormalCdfUnsigned(x, at_abs) == at_abs

\* 0.5 * (1 + sign * y), from the value at abs(x)
NormalCdfSigned(x, at_abs) == IF x < 0 THEN PIP - at_abs ELSE at_abs

\* normal_cdf(x), x in ten-thousandths
normal_cdf(x) == NormalCdfSigned(x, NormalCdfAt(Abs(x)))

\* estimate_fair_value(price, strike, vol, mins_remaining) of
\* backtest_combined.py; for whole minutes max(mins_remaining, 0.5) is
\* mins_remaining.  A positive expected move is at least one unit.
estimate_fair_value(price, strike, vol, mins_remaining) ==
    IF vol <= 0 \/ mins_remaining <= 0
    THEN (IF price > strike THEN PIP ELSE 0)
    ELSE IF price <= 0
    THEN (IF price >= strike THEN 9900 ELSE 100)
    ELSE LET expected_move == Max(1, FineExpectedMove(price, vol, mins_remaining))
             z == ZScore(price - strike, expected_move)
             prob == normal_cdf(z)
         IN Max(100, Min(9900, prob))

\* pin_discount of apply_pinning_discount, in pips
PinDiscount(btc_price, strike, mins_remaining) ==
    LET distance == btc_price - strike
        base == IF distance < 0
                THEN (IF Abs(distance) * 200 < btc_price THEN 2000
                      ELSE IF Abs(distance) * 100 < btc_price THEN 1200
                      ELSE 500)
                ELSE IF distance < 20000 THEN 1500
                ELSE 300
        round == IF strike % 100000 = 0 THEN 500
                 ELSE IF strike % 50000 = 0 THEN 300
                 ELSE 0
    IN IF mins_remaining < 15 THEN ((base + round) * 3) \div 2
       ELSE IF mins_remaining < 30 THEN ((base + round) * 6) \div 5
       ELSE base + round

\* apply_pinning_discount(fair_value, btc_price, strike, mins_remaining):
\* max(0.01, min(adjusted, fair_value))
apply_pinning_discount(fair_value, btc_price, strike, mins_remaining) ==
    LET adjusted == MulDiv(fair_value, PIP - PinDiscount(btc_price, strike, mins_remaining), PIP)
    IN Max(100, Min(adjusted, fair_value))

\* apply_pinning_discount of experiment_timed_exit.py:
\* max(0.01, fair_value * (1 - pin_discount))
timed_exit_pinning_discount(fair_value, btc_price, strike, mins_remaining) ==
    Max(100, MulDiv(fair_value, PIP - PinDiscount(btc_price, strike, mins_remaining), PIP))

\* (a - b) / b * 100 in hundredths of a percent, b > 0, rounded up: the value
\* is only compared with "> threshold"
PctUp(a, b) == -(((b - a) * 10000) \div b)
\* the same rounded down: the value is only compared with "< threshold"
PctDown(a, b) == ((a - b) * 10000) \div b

\* calc_rolling_return(candles, current_price, lookback_hours)
calc_rolling_return(candles, current_price, lookback_hours) ==
    IF Len(candles) < lookback_hours + 1 THEN 0
    ELSE LET old_close == candles[Len(candles) - lookback_hours].close
         IN IF old_close = 0 THEN 0 ELSE PctUp(current_price, old_close)

RECURSIVE SumVolume(_, _, _)
SumVolume(candles, from, to) ==
    IF from > to THEN 0 ELSE candles[from].volume + SumVolume(candles, from + 1, to)

\* calc_volume_ratio(candles, lookback=6), in hundredths
calc_volume_ratio(candles, lookback) ==
    IF Len(candles) < lookback + 2 THEN 100
    ELSE LET last_complete == candles[Len(candles) - 1]
             total == SumVolume(candles, Len(candles) - lookback - 1, Len(candles) - 2)
         IN IF total = 0 THEN 100
            ELSE MulDiv(last_complete.volume * lookback, 100, total)

\* calc_dip_recovery(candles, current_price)
calc_dip_recovery(candles, current_price) ==
    IF Len(candles) < 3 THEN [dip_pct |-> 0, recovery_pct |-> 0, is_bouncing |-> FALSE]
    ELSE LET two_prev == candles[Len(candles) - 2]
             prev == candles[Len(candles) - 1]
         IN IF two_prev.close = 0 \/ prev.low = 0
            THEN [dip_pct |-> 0, recovery_pct |-> 0, is_bouncing |-> FALSE]
            ELSE LET dip_pct == PctDown(prev.low, two_prev.close)
                     recovery_pct == PctUp(current_price, prev.low)
                 IN [dip_pct |-> dip_pct, recovery_pct |-> recovery_pct,
                     is_bouncing |-> dip_pct < -10 /\ recovery_pct > 10]

\* crossed_above_psych_level(candles, current_price, increment)
crossed_above_psych_level(candles, current_price, increment) ==
    IF Len(candles) < 2 THEN FALSE
    ELSE LET prev_close == candles[Len(candles) - 1].close
             level == -((-prev_close) \div increment) * increment
         IN prev_close < level /\ level <= current_price

\* vol_expansion_ratio(candles), in hundredths
vol_expansion_ratio(candles) ==
    IF Len(candles) < 8 THEN 100
    ELSE LET curr_vol == fine_volatility(candles[Len(candles)])
             n == Len(candles)
             total == fine_volatility(candles[n - 6]) + fine_volatility(candles[n - 5])
                        + fine_volatility(candles[n - 4]) + fine_volatility(candles[n - 3])
                        + fine_volatility(candles[n - 2]) + fine_volatility(candles[n - 1])
         IN IF total = 0 THEN 100 ELSE MulDiv(curr_vol * 6, 100, total)

\* the parameters of the deployed aggressive strategy
POSITION_SIZE == 200000         \* 20 dollars, in pips
MAX_ENTRY_PRICE == 2500
MIN_TIME_REMAINING == 15
PROB_LO == 500
PROB_HI == 4500
SMA_LOOSENESS == 3              \* 0.003, in thousandths
ROLLING_MIN_RETURN == 20
DIP_MIN_PCT == -30
DIP_MIN_RECOVERY == 20
MULTI_MIN_1H == 10
MULTI_MIN_2H == 20
VOLUME_MIN_RATIO == 150
VOLUME_MIN_RETURN == 20
PSYCH_INCREMENT == 50000        \* 500 dollars, in cents
SELLOFF_MIN_DROP == -50
SELLOFF_MIN_BOUNCE == 20
VOL_EXPANSION_MIN == 180
VOL_EXPANSION_MIN_RET == 10

\* the tolerance taken as a percentage instead of a fraction
LooseTrendPercent(fast, slow, looseness) ==
    fast > slow \/ (slow > 0 /\ (slow - fast) * 100 < looseness * slow)

\* fast > slow or (slow > 0 and (slow - fast) / slow < looseness)
LooseTrend(fast, slow, looseness) ==
    fast > slow \/ (slow > 0 /\ (slow - fast) * 1000 < looseness * slow)

NoSignal ==
    [signal |-> FALSE, signal_name |-> "none", strike |-> 0, entry_price |-> 0,
     contracts |-> 0, fv |-> 0, vol |-> 0]

\* the seven rules without the `if not signal_name` guards: the last rule that
\* fires overrides the earlier ones
SignalNameLastWins(candles, current_price) ==
    LET sma3 == calc_sma(candles, 3)
        sma6 == calc_sma(candles, 6)
        sma12 == calc_sma(candles, 12)
        short_trend == LooseTrend(sma3, sma6, SMA_LOOSENESS)
        med_trend == LooseTrend(sma6, sma12, SMA_LOOSENESS)
        r1h == calc_rolling_return(candles, current_price, 1)
        r2h == calc_rolling_return(candles, current_price, 2)
        dip == calc_dip_recovery(candles, current_price)
        c3h == candles[Len(candles) - 3]
        c1h == candles[Len(candles) - 1]
    IN IF vol_expansion_ratio(candles) >= VOL_EXPANSION_MIN
               /\ r1h > VOL_EXPANSION_MIN_RET /\ short_trend
       THEN "VOL_EXPANSION"
       ELSE IF Len(candles) >= 4 /\ c3h.close > 0
               /\ PctDown(c1h.close, c3h.close) < SELLOFF_MIN_DROP
               /\ r1h > SELLOFF_MIN_BOUNCE
       THEN "SELLOFF_RECOVERY"
       ELSE IF crossed_above_psych_level(candles, current_price, PSYCH_INCREMENT)
               /\ short_trend
       THEN "PSYCH_LEVEL"
       ELSE IF calc_volume_ratio(candles, 6) >= VOLUME_MIN_RATIO /\ r1h > VOLUME_MIN_RETURN
               /\ short_trend
       THEN "VOLUME_MOMENTUM"
       ELSE IF r1h > MULTI_MIN_1H /\ r2h > MULTI_MIN_2H /\ short_trend THEN "MULTI_HOUR"
       ELSE IF dip.dip_pct < DIP_MIN_PCT /\ dip.recovery_pct > DIP_MIN_RECOVERY
               /\ dip.is_bouncing
       THEN "DIP_RECOVERY"
       ELSE IF r1h > ROLLING_MIN_RETURN /\ short_trend /\ med_trend THEN "ROLLING_MOMENTUM"
       ELSE "none"

\* the first of the seven rules of check_all_signals that fires, "none" if none
SignalName(candles, current_price) ==
    LET sma3 == calc_sma(candles, 3)
        sma6 == calc_sma(candles, 6)
        sma12 == calc_sma(candles, 12)
        short_trend == LooseTrend(sma3, sma6, SMA_LOOSENESS)
        med_trend == LooseTrend(sma6, sma12, SMA_LOOSENESS)
        r1h == calc_rolling_return(candles, current_price, 1)
        r2h == calc_rolling_return(candles, current_price, 2)
        dip == calc_dip_recovery(candles, current_price)
        c3h == candles[Len(candles) - 3]
        c1h == candles[Len(candles) - 1]
    IN IF r1h > ROLLING_MIN_RETURN /\ short_trend /\ med_trend THEN "ROLLING_MOMENTUM"
       ELSE IF dip.dip_pct < DIP_MIN_PCT /\ dip.recovery_pct > DIP_MIN_RECOVERY
               /\ dip.is_bouncing
       THEN "DIP_RECOVERY"
       ELSE IF r1h > MULTI_MIN_1H /\ r2h > MULTI_MIN_2H /\ short_trend THEN "MULTI_HOUR"
       ELSE IF calc_volume_ratio(candles, 6) >= VOLUME_MIN_RATIO /\ r1h > VOLUME_MIN_RETURN
               /\ short_trend
       THEN "VOLUME_MOMENTUM"
       ELSE IF crossed_above_psych_level(candles, current_price, PSYCH_INCREMENT)
               /\ short_trend
       THEN "PSYCH_LEVEL"
       ELSE IF Len(candles) >= 4 /\ c3h.close > 0
               /\ PctDown(c1h.close, c3h.close) < SELLOFF_MIN_DROP
               /\ r1h > SELLOFF_MIN_BOUNCE
       THEN "SELLOFF_RECOVERY"
       ELSE IF vol_expansion_ratio(candles) >= VOL_EXPANSION_MIN
               /\ r1h > VOL_EXPANSION_MIN_RET /\ short_trend
       THEN "VOL_EXPANSION"
       ELSE "none"

\* check_all_signals(candles, current_price, entry_minute)
check_all_signals(candles, current_price, entry_minute) ==
    LET mins_remaining == 60 - entry_minute
    IN IF mins_remaining <= MIN_TIME_REMAINING THEN NoSignal
       ELSE IF Len(candles) < 12 THEN NoSignal
       ELSE IF calc_sma(candles, 3) = 0 \/ calc_sma(candles, 6) = 0
               \/ calc_sma(candles, 12) = 0
       THEN NoSignal
       ELSE
       LET vol == fine_volatility(candles[Len(candles)])
           signal_name == SignalName(candles, current_price)
           floor_strike == calc_strike(current_price)
           strike == floor_strike + STRIKE_INCREMENT
           fv == estimate_fair_value(current_price, strike, vol, mins_remaining)
           entry_price == Min(MAX_ENTRY_PRICE, (fv \div 100) * 100)
       IN IF signal_name = "none" THEN NoSignal
          ELSE IF fv < PROB_LO \/ fv > PROB_HI THEN NoSignal
          ELSE IF entry_price <= 100 THEN NoSignal
          ELSE IF POSITION_SIZE \div entry_price <= 0 THEN NoSignal
          ELSE [signal |-> TRUE, signal_name |-> signal_name, strike |-> strike,
                entry_price |-> entry_price, contracts |-> POSITION_SIZE \div entry_price,
                fv |-> fv, vol |-> vol]

\* rng.random() < prob, from the state after the draw; prob in pips
RandomLt(st, prob) == st * PIP < prob * RngMod

\* simulate_trade(entry_price, strike, contracts, current_candle, vol, rng,
\* entry_minute, use_exit) of backtest_combined.py; rng is the state of the
\* path's generator, the result carries the state after the draws
combined_simulate_trade(entry_price, strike, contracts, current_candle, vol, rng, entry_minute, use_exit) ==
    LET btc_price == current_candle.open
        mins_remaining == 60 - entry_minute
        raw_prob == estimate_fair_value(btc_price, strike, vol, mins_remaining)
        adj_prob == apply_pinning_discount(raw_prob, btc_price, strike, mins_remaining)
        s1 == RngNext(rng)
        won == RandomLt(s1, adj_prob)
        s2 == RngNext(s1)
        \* btc_price * (vol / 100) * sqrt(0.25)
        mid_move == Gauss(0, MulDiv(btc_price \div 100, vol, 20000), RngU(s2))
        mid_price == btc_price + mid_move
        mid_fv == estimate_fair_value(mid_price, strike, vol, 30)
        early_exit_pnl == calc_net_pnl(contracts, entry_price, mid_fv, "early")
        settle_win_pnl == calc_net_pnl(contracts, entry_price, PIP, "settlement")
        settle_lose_pnl == calc_net_pnl(contracts, entry_price, 0, "settlement")
        settle_ev == MulDiv(settle_win_pnl, adj_prob, PIP)
                       + MulDiv(settle_lose_pnl, PIP - adj_prob, PIP)
    IN IF use_exit /\ early_exit_pnl > settle_ev /\ early_exit_pnl > 0
       THEN [result_type |-> "early_exit", pnl |-> early_exit_pnl, adj_prob |-> adj_prob,
             rng |-> s2]
       ELSE IF won
       THEN [result_type |-> "win", pnl |-> settle_win_pnl, adj_prob |-> adj_prob, rng |-> s2]
       ELSE [result_type |-> "loss", pnl |-> settle_lose_pnl, adj_prob |-> adj_prob,
             rng |-> s2]

(***************************************************************************)
(* run_year(candles, path_seed, use_exit) of backtest_combined.py, one     *)
(* step per candle of its loop.  The program is run twice, one process     *)
(* after the other; bankroll and PnL are in the unit of PnL.               *)
(***************************************************************************)
YearLen == 19           \* len(candles) of the paths handed to run_year
YearHistory == 13       \* the loop starts at candle 13: range(13, len(candles))

\* the string-hash salt of a process (PYTHONHASHSEED is drawn at start-up)
HashSalts == {11, 12}

\* hash(("combined", path_seed)) & 0xFFFFFFFF in a process with the given salt,
\* at the width of the model's generator
HashSeed(salt, path_seed) == (salt * 31 + path_seed) % RngMod

\* paths: rising candles, 204 dollars up per hour from 68000, with wicks of 20
\* dollars; each of the three candles from the last of the history on may
\* have wicks of 2000 dollars instead
RECURSIVE YearPathsFrom(_)
YearPathsFrom(n) ==
    IF n = 0 THEN {<<>>}
    ELSE {Append(q, MkCandle(n - 1, 6800000 + (n - 1) * 20400, 6800000 + n * 20400, wick)) :
            q \in YearPathsFrom(n - 1),
            wick \in IF n >= YearHistory /\ n < YearHistory + 3
                     THEN {2000, 200000} ELSE {2000}}

YearPaths == YearPathsFrom(YearLen)

SignalNames ==
    {"ROLLING_MOMENTUM", "DIP_RECOVERY", "MULTI_HOUR", "VOLUME_MOMENTUM", "PSYCH_LEVEL",
     "SELLOFF_RECOVERY", "VOL_EXPANSION"}

\* the locals of run_year at its start
YearStart(proc, salt, path_seed, use_exit, candles, first) ==
    [pc |-> "loop", proc |-> proc, salt |-> salt, path_seed |-> path_seed,
     use_exit |-> use_exit, candles |-> candles,
     seed |-> HashSeed(salt, path_seed), rng |-> RngSeed(HashSeed(salt, path_seed)),
     i |-> YearHistory,
     bankroll |-> 100 * PIP * PNL_PER_PIP, peak_bank |-> 100 * PIP * PNL_PER_PIP,
     min_bank |-> 100 * PIP * PNL_PER_PIP, max_dd |-> 0, peak_pnl |-> 0, total_pnl |-> 0,
     trades |-> 0, wins |-> 0, losses |-> 0, early_exits |-> 0, ruin_hit |-> FALSE,
     last_trade_hour |-> -999, signal_counts |-> [n \in SignalNames |-> 0],
     all_probs |-> <<>>, calls |-> <<>>, first |-> first]

\* the dict run_year returns
YearResult(y) ==
    [trades |-> y.trades, wins |-> y.wins, losses |-> y.losses,
     early_exits |-> y.early_exits,
     win_rate |-> IF y.trades > 0 THEN (y.wins * 10000) \div y.trades ELSE 0,
     total_pnl |-> y.total_pnl, final_bankroll |-> y.bankroll,
     peak_bankroll |-> y.peak_bank, min_bankroll |-> y.min_bank, max_dd |-> y.max_dd,
     expectancy |-> IF y.trades > 0 THEN y.total_pnl \div y.trades ELSE 0,
     ruin_hit |-> y.ruin_hit, signal_counts |-> y.signal_counts,
     avg_prob |-> IF y.all_probs # <<>> THEN SeqSum(y.all_probs) \div Len(y.all_probs) ELSE 0]

NoRun == [pc |-> "none"]

IdleYear == yr = [pc |-> "idle"]

\* __main__: run_year(candles, path_seed=path_idx, use_exit=...) in a fresh process
InitYear ==
    \E salt \in HashSalts, path_seed \in 0..1, use_exit \in BOOLEAN, candles \in YearPaths :
        yr = YearStart(1, salt, path_seed, use_exit, candles, NoRun)

YearCandle(y) == y.candles[y.i + 1]
YearHistoryOf(y) == SubSeq(y.candles, Max(0, y.i - 13) + 1, y.i)
YearSig(y) == check_all_signals(YearHistoryOf(y), YearCandle(y).open, 30)
\* the loop body is entered and passes "if i - last_trade_hour < 1: continue"
YearInLoop(y) == y.pc = "loop" /\ y.i < Len(y.candles) /\ ~(y.i - y.last_trade_hour < 1)
\* bankroll < POSITION_SIZE * 0.5
YearCannotAfford(y) == 2 * y.bankroll < POSITION_SIZE * PNL_PER_PIP

\* the affordability check skips the candle without marking the path
YearRuinUnmarked ==
    /\ YearInLoop(yr)
    /\ YearCannotAfford(yr)
    /\ yr' = [yr EXCEPT !.i = yr.i + 1]
    /\ UNCHANGED <<genVars, tradeVars, btVars, aggVars, sweepVars, kellyVars, fnVars, rankVars, orchVars, agentVars>>

\* the bankroll cannot afford half a position: ruin_hit = True; continue
YearRuin ==
    /\ YearInLoop(yr)
    /\ YearCannotAfford(yr)
    /\ yr' = [yr EXCEPT !.ruin_hit = TRUE, !.i = yr.i + 1]
    /\ UNCHANGED <<genVars, tradeVars, btVars, aggVars, sweepVars, kellyVars, fnVars, rankVars, orchVars, agentVars>>

\* check_all_signals returns None: continue
YearNoSignal ==
    /\ YearInLoop(yr)
    /\ ~YearCannotAfford(yr)
    /\ ~YearSig(yr).signal
    /\ yr' = [yr EXCEPT !.i = yr.i + 1]
    /\ UNCHANGED <<genVars, tradeVars, btVars, aggVars, sweepVars, kellyVars, fnVars, rankVars, orchVars, agentVars>>

\* a signal: the trade is simulated with the path's generator and booked
YearTrade ==
    /\ YearInLoop(yr)
    /\ ~YearCannotAfford(yr)
    /\ YearSig(yr).signal
    /\ LET sig == YearSig(yr)
           r == combined_simulate_trade(sig.entry_price, sig.strike, sig.contracts,
                                        YearCandle(yr), sig.vol, yr.rng, 30, yr.use_exit)
           total_pnl == yr.total_pnl + r.pnl
           bankroll == yr.bankroll + r.pnl
           peak_pnl == IF total_pnl > yr.peak_pnl THEN total_pnl ELSE yr.peak_pnl
           dd == peak_pnl - total_pnl
       IN yr' = [yr EXCEPT
                    !.rng = r.rng,
                    !.trades = yr.trades + 1,
                    !.total_pnl = total_pnl,
                    !.bankroll = bankroll,
                    !.last_trade_hour = yr.i,
                    !.all_probs = Append(yr.all_probs, r.adj_prob),
                    !.signal_counts[sig.signal_name] = yr.signal_counts[sig.signal_name] + 1,
                    !.early_exits = IF r.result_type = "early_exit"
                                    THEN yr.early_exits + 1 ELSE yr.early_exits,
                    !.wins = IF r.pnl >= 0 THEN yr.wins + 1 ELSE yr.wins,
                    !.losses = IF r.pnl >= 0 THEN yr.losses ELSE yr.losses + 1,
                    !.peak_pnl = peak_pnl,
                    !.max_dd = IF dd > yr.max_dd THEN dd ELSE yr.max_dd,
                    !.peak_bank = IF bankroll > yr.peak_bank THEN bankroll ELSE yr.peak_bank,
                    !.min_bank = IF bankroll < yr.min_bank THEN bankroll ELSE yr.min_bank,
                    !.calls = Append(yr.calls,
                                [entry_price |-> sig.entry_price, strike |-> sig.strike,
                                 contracts |-> sig.contracts, current_candle |-> YearCandle(yr),
                                 vol |-> sig.vol, bankroll |-> yr.bankroll,
                                 result_type |-> r.result_type, pnl |-> r.pnl]),
                    !.i = yr.i + 1]
    /\ UNCHANGED <<genVars, tradeVars, btVars, aggVars, sweepVars, kellyVars, fnVars, rankVars, orchVars, agentVars>>

\* the loop is over: run_year returns
YearReturn ==
    /\ yr.pc = "loop"
    /\ yr.i >= Len(yr.candles)
    /\ yr' = [yr EXCEPT !.pc = "done"]
    /\ UNCHANGED <<genVars, tradeVars, btVars, aggVars, sweepVars, kellyVars, fnVars, rankVars, orchVars, agentVars>>

\* the program is started again: a new process calls run_year with the same
\* path_seed and use_exit
YearAgain ==
    /\ yr.pc = "done"
    /\ yr.proc = 1
    /\ \E salt \in HashSalts, candles \in YearPaths :
          yr' = YearStart(2, salt, yr.path_seed, yr.use_exit, candles,
                          [pc |-> "done", salt |-> yr.salt, seed |-> yr.seed,
                           candles |-> yr.candles, calls |-> yr.calls,
                           result |-> YearResult(yr)])
    /\ UNCHANGED <<genVars, tradeVars, btVars, aggVars, sweepVars, kellyVars, fnVars, rankVars, orchVars, agentVars>>

NextYear == YearRuin \/ YearNoSignal \/ YearTrade \/ YearReturn \/ YearAgain

(***************************************************************************)
(* experiment_rh_pricing.py: contract pricing, the trade simulator and      *)
(* the trend filter.  Prices in cents, volatility in ten-thousandths of a  *)
(* percent, probabilities and contract prices in pips.                      *)
(***************************************************************************)
MIN_STRIKE_DISTANCE == 5000     \* 50 dollars, in cents

\* random.randint(a, b) on the draw that led to state st
RandInt(st, a, b) == a + (st * (b - a + 1)) \div RngMod

\* floor_strike(price)
floor_strike(price) == (price \div STRIKE_INCREMENT) * STRIKE_INCREMENT

\* rh_contract_price(btc_price, strike, hourly_vol_pct, minutes_remaining).
\* A positive expected move is at least one unit.
rh_contract_price(btc_price, strike, hourly_vol_pct, minutes_remaining) ==
    IF minutes_remaining <= 0
    THEN (IF btc_price >= strike THEN 9900 ELSE 100)
    ELSE LET distance == btc_price - strike
             effective_vol == (hourly_vol_pct * 115) \div 100
             positive == btc_price > 0 /\ effective_vol > 0
             expected_move ==
                 Max(1, MulDiv(MulDiv(btc_price \div 100, effective_vol, 10000),
                               Isqrt((minutes_remaining * 1000000) \div 60), 1000))
         IN IF ~positive
            THEN (IF btc_price >= strike THEN 9900 ELSE 100)
            ELSE LET fair_prob == normal_cdf(ZScore(distance, expected_move))
                     spread == (400 * (PIP - 2 * Abs(fair_prob - 5000))) \div PIP
                     rh_price == fair_prob + spread
                 IN Max(100, Min(9900, rh_price))

\* estimate_fair_value(price, strike, vol, mins_remaining) of
\* experiment_rh_pricing.py
rh_estimate_fair_value(price, strike, vol, mins_remaining) ==
    IF vol <= 0 \/ mins_remaining <= 0 \/ price <= 0
    THEN (IF price > strike THEN PIP ELSE 0)
    ELSE LET expected_move == Max(1, FineExpectedMove(price, vol, mins_remaining))
             z == ZScore(price - strike, expected_move)
         IN Max(100, Min(9900, normal_cdf(z)))

\* calc_risk_of_ruin(current_price, strike, volatility, minutes_remaining) of
\* experiment_rh_pricing.py
rh_calc_risk_of_ruin(current_price, strike, volatility, minutes_remaining) ==
    LET distance == current_price - strike
        positive == current_price > 0 /\ volatility > 0
        expected_move == Max(1, FineExpectedMove(current_price, volatility, minutes_remaining))
        z == IF positive THEN ZScore(distance, expected_move) ELSE 0
    IN Max(100, Min(9900, PIP - normal_cdf(z)))

\* (1 - ror) * win + ror * lose, ror in pips
RhSettleEv(ror, win, lose) == MulDiv(win, PIP - ror, PIP) + MulDiv(lose, ror, PIP)

\* simulate_trade(entry_price, strike, contracts, candles_after, volatility,
\* btc_entry_price, use_exit_logic) of experiment_rh_pricing.py
rh_simulate_trade(entry_price, strike, contracts, candles_after, volatility, btc_entry_price, use_exit_logic) ==
    IF candles_after = <<>> THEN [outcome |-> "no_data", pnl |-> 0]
    ELSE
    LET settlement_candle == candles_after[1]
        settlement_price == settlement_candle.close
        settle_win_pnl == calc_net_pnl(contracts, entry_price, PIP, "settlement")
        settle_lose_pnl == calc_net_pnl(contracts, entry_price, 0, "settlement")
        settled == IF settlement_price > strike
                   THEN [outcome |-> "win", pnl |-> settle_win_pnl]
                   ELSE [outcome |-> "loss", pnl |-> settle_lose_pnl]
        mid_price == (settlement_candle.open + settlement_candle.close) \div 2
        ror == rh_calc_risk_of_ruin(mid_price, strike, volatility, 30)
        implied_price == rh_contract_price(mid_price, strike, volatility, 30)
        early_exit_pnl == calc_net_pnl(contracts, entry_price, implied_price, "early")
        settle_ev == RhSettleEv(ror, settle_win_pnl, settle_lose_pnl)
        late_price == settlement_candle.close
        late_ror == rh_calc_risk_of_ruin(late_price, strike, volatility, 10)
        late_implied == rh_contract_price(late_price, strike, volatility, 10)
        late_exit_pnl == calc_net_pnl(contracts, entry_price, late_implied, "early")
        late_settle_ev == RhSettleEv(late_ror, settle_win_pnl, settle_lose_pnl)
    IN IF ~use_exit_logic THEN settled
       ELSE IF ror >= 5000 THEN [outcome |-> "early_exit", pnl |-> early_exit_pnl]
       ELSE IF settle_ev < early_exit_pnl /\ early_exit_pnl > 0
       THEN [outcome |-> "early_exit", pnl |-> early_exit_pnl]
       ELSE IF late_ror >= 3000 /\ late_settle_ev <= late_exit_pnl + late_exit_pnl \div 5
       THEN [outcome |-> "early_exit", pnl |-> late_exit_pnl]
       ELSE settled

\* check_trend(candles, current_price, hour_utc, sma_looseness): passed, and the
\* details vol and hr (hr rounded up: it is only compared with "<= threshold").
\* sma_looseness is in thousandths, -1 for None.
check_trend(candles, current_price, hour_utc, sma_looseness) ==
    LET sma3 == calc_sma(candles, 3)
        sma6 == calc_sma(candles, 6)
        sma12 == calc_sma(candles, 12)
        short_trend == IF sma_looseness = -1 THEN TRUE
                       ELSE IF sma_looseness = 0 THEN sma3 > sma6
                       ELSE LooseTrend(sma3, sma6, sma_looseness)
        medium_trend == IF sma_looseness = -1 THEN TRUE
                        ELSE IF sma_looseness = 0 THEN sma6 > sma12
                        ELSE LooseTrend(sma6, sma12, sma_looseness)
        last == candles[Len(candles)]
    IN IF ~(14 <= hour_utc /\ hour_utc < 21) THEN [passed |-> FALSE, vol |-> 0, hr |-> 0]
       ELSE IF sma3 = 0 \/ sma6 = 0 \/ sma12 = 0 THEN [passed |-> FALSE, vol |-> 0, hr |-> 0]
       ELSE IF ~short_trend \/ ~medium_trend THEN [passed |-> FALSE, vol |-> 0, hr |-> 0]
       ELSE [passed |-> TRUE, vol |-> fine_volatility(last),
             hr |-> IF last.open = 0 THEN 0 ELSE PctUp(current_price, last.open)]

\* prob_lo <= fv <= prob_hi and rh <= max_entry
RhAffordable(params, fv, rh, max_entry) ==
    params.prob_lo <= fv /\ fv <= params.prob_hi /\ rh <= max_entry

RhPick(strike, fair_value, actual_entry, strike_label) ==
    [kind |-> "picked", strike |-> strike, fair_value |-> fair_value,
     actual_entry |-> actual_entry, strike_label |-> strike_label]
RhSkip(kind) ==
    [kind |-> kind, strike |-> 0, fair_value |-> 0, actual_entry |-> 0, strike_label |-> "none"]

\* max(candidates, key=edge) when by_edge, min(candidates, key=price) otherwise:
\* the first of the best candidates
RhBetter(a, b, by_edge) ==
    IF by_edge THEN a.fair_value - a.actual_entry > b.fair_value - b.actual_entry
    ELSE a.actual_entry < b.actual_entry
RhBest(candidates, by_edge) ==
    LET j == CHOOSE j \in 1..Len(candidates) :
                 /\ \A k \in 1..Len(candidates) : ~RhBetter(candidates[k], candidates[j], by_edge)
                 /\ \A k \in 1..(j - 1) : RhBetter(candidates[j], candidates[k], by_edge)
    IN candidates[j]

\* run_variant, strike selection among the three priced strikes: the strike
\* picked for the candle, or the counter of the skip
SelectAmong(params, max_entry, dist, floor_pick, next_pick, two_pick) ==
    LET Ok(pick) == RhAffordable(params, pick.fair_value, pick.actual_entry, max_entry)
        floor_ok == dist >= MIN_STRIKE_DISTANCE /\ Ok(floor_pick)
        candidates == (IF floor_ok THEN <<floor_pick>> ELSE <<>>)
                          \o (IF Ok(next_pick) THEN <<next_pick>> ELSE <<>>)
                          \o (IF Ok(two_pick) THEN <<two_pick>> ELSE <<>>)
        Single(in_band, pick) ==
            IF in_band /\ params.prob_lo <= pick.fair_value /\ pick.fair_value <= params.prob_hi
            THEN (IF pick.actual_entry <= max_entry THEN pick ELSE RhSkip("too_expensive"))
            ELSE RhSkip("prob")
    IN CASE params.strike_type = "floor" -> Single(dist >= MIN_STRIKE_DISTANCE, floor_pick)
         [] params.strike_type = "next_up" -> Single(TRUE, next_pick)
         [] params.strike_type = "two_up" -> Single(TRUE, two_pick)
         [] params.strike_type = "next_up_fallback" ->
                IF floor_ok THEN floor_pick
                ELSE IF Ok(next_pick) THEN next_pick
                ELSE RhSkip("no_strike")
         [] params.strike_type = "smart_select" ->
                IF candidates = <<>> THEN RhSkip("no_strike") ELSE RhBest(candidates, TRUE)
         [] params.strike_type = "cheapest_valid" ->
                IF candidates = <<>> THEN RhSkip("no_strike") ELSE RhBest(candidates, FALSE)
         [] OTHER -> RhSkip("unknown")

\* the strike at fs + k increments with our fair value and the RH price
RhPriced(current_price, strike, vol, mins_remaining, strike_label) ==
    RhPick(strike, rh_estimate_fair_value(current_price, strike, vol, mins_remaining),
           rh_contract_price(current_price, strike, vol, mins_remaining), strike_label)

\* run_variant, strike selection
SelectStrike(params, current_price, vol, mins_remaining) ==
    SelectAmong(params,
                IF params.entry_cap.is_dict
                THEN (IF mins_remaining >= 35 THEN params.entry_cap.early
                      ELSE params.entry_cap.late)
                ELSE params.entry_cap.cap,
                current_price - floor_strike(current_price),
                RhPriced(current_price, floor_strike(current_price), vol, mins_remaining, "floor"),
                RhPriced(current_price, floor_strike(current_price) + STRIKE_INCREMENT,
                         vol, mins_remaining, "next_up"),
                RhPriced(current_price, floor_strike(current_price) + 2 * STRIKE_INCREMENT,
                         vol, mins_remaining, "two_up"))

\* the locals of run_variant at its start; i is the index of the loop
VariantStart ==
    [i |-> 12, trades |-> 0, wins |-> 0, losses |-> 0, early_exits |-> 0,
     total_pnl |-> 0, max_dd |-> 0, peak_pnl |-> 0,
     floor_used |-> 0, next_up_used |-> 0, ceil_used |-> 0, two_up_used |-> 0,
     skipped_too_expensive |-> 0, skipped_no_strike |-> 0, skipped_prob |-> 0,
     bankroll |-> 100 * PIP * PNL_PER_PIP]

\* the dict run_variant returns; win_rate in hundredths of a percent
VariantResult(v) ==
    [trades |-> v.trades, wins |-> v.wins, losses |-> v.losses,
     win_rate |-> IF v.trades > 0 THEN (v.wins * 10000) \div v.trades ELSE 0,
     total_pnl |-> v.total_pnl, max_dd |-> v.max_dd,
     expectancy |-> IF v.trades > 0 THEN v.total_pnl \div v.trades ELSE 0,
     early_exits |-> v.early_exits,
     floor_used |-> v.floor_used, next_up_used |-> v.next_up_used,
     ceil_used |-> v.ceil_used, two_up_used |-> v.two_up_used,
     skipped_expensive |-> v.skipped_too_expensive, skipped_prob |-> v.skipped_prob,
     skipped_no_strike |-> v.skipped_no_strike, final_bankroll |-> v.bankroll]

\* run_variant, the bookkeeping of a resolved trade
VariantTraded(v, used, pick, contracts_count, result) ==
    LET pnl == result.pnl
        total_pnl == v.total_pnl + pnl
        peak_pnl == Max(v.peak_pnl, total_pnl)
    IN [did |-> "trade",
        v |-> [used EXCEPT
                  !.trades = @ + 1,
                  !.total_pnl = total_pnl,
                  !.bankroll = @ + pnl,
                  !.early_exits = @ + (IF result.outcome = "early_exit" THEN 1 ELSE 0),
                  !.wins = @ + (IF pnl >= 0 THEN 1 ELSE 0),
                  !.losses = @ + (IF pnl >= 0 THEN 0 ELSE 1),
                  !.peak_pnl = peak_pnl,
                  !.max_dd = Max(@, peak_pnl - total_pnl)],
        outcome |-> result.outcome, pnl |-> pnl, strike |-> pick.strike,
        actual_entry |-> pick.actual_entry, contracts |-> contracts_count]

\* run_variant from the strike selection on
VariantEnter(v, next, candles, params, vol, current_price, pick) ==
    LET used == [next EXCEPT
                    !.floor_used = @ + (IF pick.strike_label = "floor" THEN 1 ELSE 0),
                    !.next_up_used = @ + (IF pick.strike_label = "next_up" THEN 1 ELSE 0),
                    !.ceil_used = @ + (IF pick.strike_label = "ceil" THEN 1 ELSE 0),
                    !.two_up_used = @ + (IF pick.strike_label = "two_up" THEN 1 ELSE 0)]
        contracts_count == params.position_size \div pick.actual_entry
        candles_after == SubSeq(candles, v.i + 2, Min(v.i + 3, Len(candles)))
    IN IF pick.kind = "too_expensive"
       THEN [did |-> pick.kind, v |-> [next EXCEPT !.skipped_too_expensive = @ + 1]]
       ELSE IF pick.kind = "prob"
       THEN [did |-> pick.kind, v |-> [next EXCEPT !.skipped_prob = @ + 1]]
       ELSE IF pick.kind = "no_strike"
       THEN [did |-> pick.kind, v |-> [next EXCEPT !.skipped_no_strike = @ + 1]]
       ELSE IF pick.kind = "unknown" THEN [did |-> pick.kind, v |-> next]
       ELSE IF contracts_count <= 0 THEN [did |-> "no_contracts", v |-> used]
       ELSE IF candles_after = <<>> THEN [did |-> "no_data", v |-> used]
       ELSE VariantTraded(v, used, pick, contracts_count,
                          rh_simulate_trade(pick.actual_entry, pick.strike, contracts_count,
                                            candles_after, vol, current_price,
                                            params.use_exit_logic))

\* run_variant up to the strike selection
VariantFilter(v, next, candles, params, mins_remaining, candle, details) ==
    IF mins_remaining <= params.min_time_remaining THEN [did |-> "late", v |-> next]
    ELSE IF ~details.passed THEN [did |-> "no_trend", v |-> next]
    ELSE IF details.hr <= params.hour_return_threshold THEN [did |-> "flat_hour", v |-> next]
    ELSE VariantEnter(v, next, candles, params, fine_volatility(candle), candle.close,
                      SelectStrike(params, candle.close, fine_volatility(candle), mins_remaining))

\* one pass of the loop of run_variant for the candle of index v.i, entered at
\* the drawn minute: what the pass did and the locals after it
VariantIteration(v, candles, params, minute) ==
    VariantFilter(v, [v EXCEPT !.i = v.i + 1], candles, params, 60 - minute, candles[v.i + 1],
                  check_trend(SubSeq(candles, Max(0, v.i - 12) + 1, v.i + 1),
                              candles[v.i + 1].close, HourUtc(candles[v.i + 1]),
                              params.sma_looseness))

(***************************************************************************)
(* experiment_rh_pricing.py, __main__: every experiment is run on every    *)
(* path, one run_variant after the other, in one process.  run_variant     *)
(* draws the entry minute of every candle from the generator of module     *)
(* `random`, which the process shares.                                     *)
(***************************************************************************)
SweepPaths == 2         \* NUM_PATHS, bounded
SweepLen == 15          \* candles of a path, bounded

\* base of build_experiments, and add(name, overrides)
FixedCap(cap) == [is_dict |-> FALSE, cap |-> cap, early |-> cap, late |-> cap]
ExperimentBase ==
    [strike_type |-> "next_up", entry_cap |-> FixedCap(3000), position_size |-> 20 * PIP,
     prob_lo |-> 2000, prob_hi |-> 7000, min_time_remaining |-> 15,
     hour_return_threshold |-> 30, use_exit_logic |-> TRUE, sma_looseness |-> 1]

\* the experiments of build_experiments that are run: the baseline, floor
\* only, smart select, cheapest valid, next-up with a 50 cent cap, more than
\* 30 minutes left, and hold to settlement
build_experiments ==
    << [id |-> 1, params |-> ExperimentBase],
       [id |-> 2, params |-> [ExperimentBase EXCEPT !.strike_type = "floor",
                                 !.entry_cap = FixedCap(7000), !.prob_lo = 5000, !.prob_hi = 9500]],
       [id |-> 5, params |-> [ExperimentBase EXCEPT !.strike_type = "smart_select",
                                 !.entry_cap = FixedCap(5000)]],
       [id |-> 34, params |-> [ExperimentBase EXCEPT !.min_time_remaining = 30]] >>

NumExperiments == Len(build_experiments)

\* the paths handed to run_variant: hourly candles from 02:00 UTC on that rise
\* by 250 dollars an hour from 68100; each of the hours the loop visits closes
\* either 250 dollars up or 100 dollars down
RECURSIVE SweepPathsFrom(_, _)
SweepPathsFrom(n, open) ==
    IF n > SweepLen THEN {<<>>}
    ELSE LET moves == IF n > 12 /\ n < SweepLen THEN {25000, -10000} ELSE {25000}
         IN UNION {{<<MkCandle(n + 1, open, open + move, 5000)>> \o rest :
                        rest \in SweepPathsFrom(n + 1, open + move)} : move \in moves}
SweepPathSet == SweepPathsFrom(1, 6810000)

\* the state of module random when the sweep starts: what the generator call
\* of the last path left behind, a function of that path's seed
SweepRandomStart == RngSeed(PathSeed(SweepPaths - 1))

IdleSweep == sw = [pc |-> "idle"]

\* the locals of __main__ when the loop over the experiments starts
SweepStart(proc, order, all_paths, first) ==
    [pc |-> "variant", proc |-> proc, random |-> SweepRandomStart, order |-> order,
     all_paths |-> all_paths, e |-> 1, p |-> 1, v |-> VariantStart,
     results |-> [k \in {} |-> 0], first |-> first]

InitSweep ==
    \E all_paths \in [1..SweepPaths -> SweepPathSet] :
        sw = SweepStart(1, [j \in 1..NumExperiments |-> j], all_paths, [pc |-> "none"])

SweepExperiment == build_experiments[sw.order[sw.e]]
SweepCandles == sw.all_paths[sw.p]
SweepInLoop == sw.pc = "variant" /\ sw.v.i < Len(SweepCandles) - 1

\* the pass of the loop for the next draw of random.randint(0, 45)
SweepPass ==
    VariantIteration(sw.v, SweepCandles, SweepExperiment.params,
                     RandInt(RngNext(sw.random), 0, 45))

\* the pass takes the draw and leaves its locals
SweepTake(pass, trade) ==
    /\ (pass.did = "trade") = trade
    /\ sw' = [sw EXCEPT !.random = RngNext(sw.random), !.v = pass.v]

\* run_variant: a pass of the loop that ends in continue
SweepSkip ==
    /\ SweepInLoop
    /\ SweepTake(SweepPass, FALSE)
    /\ UNCHANGED <<genVars, tradeVars, btVars, aggVars, yearVars, kellyVars, fnVars, rankVars, orchVars, agentVars>>

\* run_variant: a pass of the loop that enters and resolves a trade
SweepTrade ==
    /\ SweepInLoop
    /\ SweepTake(SweepPass, TRUE)
    /\ UNCHANGED <<genVars, tradeVars, btVars, aggVars, yearVars, kellyVars, fnVars, rankVars, orchVars, agentVars>>

\* run_variant returns; __main__ appends the result and goes on to the next
\* path, the next experiment, or the end of the sweep
SweepReturn ==
    /\ sw.pc = "variant"
    /\ ~SweepInLoop
    /\ LET key == <<SweepExperiment.id, sw.p>>
           results == (key :> VariantResult(sw.v)) @@ sw.results
           last_path == sw.p = Len(sw.all_paths)
           last_exp == sw.e = Len(sw.order)
       IN sw' = [sw EXCEPT !.results = results,
                           !.v = VariantStart,
                           !.p = IF last_path THEN 1 ELSE sw.p + 1,
                           !.e = IF last_path /\ ~last_exp THEN sw.e + 1 ELSE sw.e,
                           !.pc = IF last_path /\ last_exp THEN "done" ELSE "variant"]
    /\ UNCHANGED <<genVars, tradeVars, btVars, aggVars, yearVars, kellyVars, fnVars, rankVars, orchVars, agentVars>>

\* the program is run again, on the same paths, with its experiment list in
\* another order
SweepAgain ==
    /\ sw.pc = "done"
    /\ sw.proc = 1
    /\ \E order \in Permutations(1..NumExperiments) :
          sw' = SweepStart(2, order, sw.all_paths,
                           [pc |-> "done", order |-> sw.order, results |-> sw.results])
    /\ UNCHANGED <<genVars, tradeVars, btVars, aggVars, yearVars, kellyVars, fnVars, rankVars, orchVars, agentVars>>

NextSweep == SweepSkip \/ SweepTrade \/ SweepReturn \/ SweepAgain

(***************************************************************************)
(* generate_btc_candles (experiment_kelly_criterion.py): the candle         *)
(* generator of the Monte-Carlo runs.  Prices in mills, rates in basis      *)
(* points.  __main__ seeds the module-global generator once (seed 42) and   *)
(* run_monte_carlo calls generate_btc_candles once per run; nothing else    *)
(* in the script draws, so each run starts from the state the previous run  *)
(* left.                                                                    *)
(***************************************************************************)
KellyHours == 12        \* total_hours = days * hours_per_day, bounded
KellyRuns == 8          \* num_runs of run_monte_carlo, bounded

KELLY_START_PRICE == 100000000      \* current_price = 100000.0
KELLY_MAIN_SEED == 42               \* random.seed(42)

\* the locals of generate_btc_candles before the loop, drawing regime_duration
KellyEnter(st, run) ==
    LET s1 == RngNext(st)
    IN [pc |-> "run", run |-> run, rng |-> s1, hour |-> 0,
        current_price |-> KELLY_START_PRICE, bull_regime |-> TRUE,
        hours_in_regime |-> 0, regime_duration |-> RandInt(s1, 48, 168),
        candles |-> <<>>]

\* one iteration of `for hour in range(total_hours)`
KellyIteration(k) ==
    LET hir1 == k.hours_in_regime + 1
        flip == hir1 >= k.regime_duration
        s1 == IF flip THEN RngNext(k.rng) ELSE k.rng
        bull == IF flip THEN ~k.bull_regime ELSE k.bull_regime
        hir2 == IF flip THEN 0 ELSE hir1
        dur2 == IF flip THEN RandInt(s1, 48, 168) ELSE k.regime_duration
        drift == IF bull THEN 3 ELSE -2
        volatility == IF bull THEN 150 ELSE 250
        s2 == RngNext(s1)
        change_pct == drift + Gauss(0, volatility, RngU(s2))
        new_price == k.current_price + MulDiv(k.current_price, change_pct, 10000)
        s3 == RngNext(s2)
        high == new_price + MulDiv(new_price, Abs(Gauss(0, 30, RngU(s3))), 10000)
        s4 == RngNext(s3)
        low == new_price - MulDiv(new_price, Abs(Gauss(0, 30, RngU(s4))), 10000)
        open_price == k.current_price
        s5 == RngNext(s4)
        base_volume == 800 + 25 * RngU(s5)
        volume == base_volume + MulDiv(base_volume, Abs(change_pct), 1000)
        candle == [hour |-> k.hour, open |-> open_price, high |-> high,
                   low |-> low, close |-> new_price, volume |-> volume,
                   change_pct |-> change_pct]
    IN [k EXCEPT !.rng = s5, !.hour = k.hour + 1, !.current_price = new_price,
                 !.bull_regime = bull, !.hours_in_regime = hir2,
                 !.regime_duration = dur2, !.candles = Append(k.candles, candle)]

IdleKelly == kg = [pc |-> "idle"]

\* __main__: random.seed(42), then the first run's call
InitKelly == kg = KellyEnter(RngSeed(KELLY_MAIN_SEED), 0)

KellyStep ==
    /\ kg.pc = "run"
    /\ kg.hour < KellyHours
    /\ kg' = KellyIteration(kg)
    /\ UNCHANGED <<genVars, tradeVars, btVars, aggVars, yearVars, sweepVars, fnVars, rankVars, orchVars, agentVars>>

\* return candles
KellyReturn ==
    /\ kg.pc = "run"
    /\ kg.hour = KellyHours
    /\ kg' = [kg EXCEPT !.pc = "done"]
    /\ UNCHANGED <<genVars, tradeVars, btVars, aggVars, yearVars, sweepVars, fnVars, rankVars, orchVars, agentVars>>

\* the next run of run_monte_carlo calls the generator again
KellyCall ==
    /\ kg.pc = "done"
    /\ kg.run + 1 < KellyRuns
    /\ kg' = KellyEnter(kg.rng, kg.run + 1)
    /\ UNCHANGED <<genVars, tradeVars, btVars, aggVars, yearVars, sweepVars, fnVars, rankVars, orchVars, agentVars>>

NextKelly == KellyStep \/ KellyReturn \/ KellyCall

(***************************************************************************)
(* The fair-value functions of the other scripts.  Prices and strikes in    *)
(* cents, volatility in ten-thousandths of a percent, whole minutes,        *)
(* probabilities in pips.                                                   *)
(***************************************************************************)
\* the hard indicator `1.0 if price > strike else 0.0`
StrictIndicator(price, strike) == IF price > strike THEN PIP ELSE 0
\* the hard indicator `1.0 if btc_price >= strike else 0.0`
WeakIndicator(price, strike) == IF price >= strike THEN PIP ELSE 0

\* the z-score buckets of estimate_fair_value (experiment_aggressive.py);
\* z = distance / expected_move is compared by cross-multiplication
BucketProbability(distance, expected_move) ==
    IF distance <= -3 * expected_move THEN 10
    ELSE IF distance <= -2 * expected_move THEN 200
    ELSE IF distance <= -expected_move THEN 1600
    ELSE IF 2 * distance <= -expected_move THEN 3100
    ELSE IF distance <= 0 THEN 5000
    ELSE IF 2 * distance <= expected_move THEN 6900
    ELSE IF distance <= expected_move THEN 8400
    ELSE IF 2 * distance <= 3 * expected_move THEN 9300
    ELSE IF distance <= 2 * expected_move THEN 9800
    ELSE 9900

\* estimate_fair_value(price, strike, vol, mins_remaining) of
\* experiment_aggressive.py; z = 0 when expected_move is not positive
bucket_fair_value(price, strike, vol, mins_remaining) ==
    IF vol <= 0 \/ mins_remaining <= 0
    THEN StrictIndicator(price, strike)
    ELSE IF price <= 0 THEN 5000
    ELSE BucketProbability(price - strike,
                           Max(1, FineExpectedMove(price, vol, mins_remaining)))

\* fair_probability(btc_price, strike, vol_pct, mins_remaining) of
\* experiment_v2_honest.py
fair_probability(btc_price, strike, vol_pct, mins_remaining) ==
    IF mins_remaining <= 0 THEN WeakIndicator(btc_price, strike)
    ELSE IF vol_pct <= 0 THEN WeakIndicator(btc_price, strike)
    ELSE IF btc_price <= 0 THEN WeakIndicator(btc_price, strike)
    ELSE Max(10, Min(9990,
             normal_cdf(ZScore(btc_price - strike,
                               Max(1, FineExpectedMove(btc_price, vol_pct, mins_remaining))))))

\* sqrt(max(minutes_remaining, 0.5) / 60) in thousandths
KellySqrtHours(minutes_remaining) ==
    Isqrt((Max(2 * minutes_remaining, 1) * 1000000) \div 120)

\* the certainty boost of the last two minutes applied to probability;
\* normal_cdf(x) > 0.5 exactly when x >= 0 (normal_cdf(0) = 0.5000000005)
CertaintyBoost(probability, above_half, minutes_remaining) ==
    IF minutes_remaining > 2 THEN probability
    ELSE IF above_half
    THEN probability + MulDiv(PIP - probability, 1500 - 750 * minutes_remaining, PIP)
    ELSE MulDiv(probability, PIP - (1500 - 750 * minutes_remaining), PIP)

\* estimate_contract_fair_value(btc_price, strike, volatility_pct,
\* minutes_remaining) of experiment_kelly_criterion.py
estimate_contract_fair_value(btc_price, strike, volatility_pct, minutes_remaining) ==
    IF btc_price <= 0 \/ volatility_pct <= 0 THEN 5000
    ELSE Max(100, Min(9900,
             CertaintyBoost(
                 normal_cdf(ZScore(btc_price - strike,
                     Max(1, MulDiv(MulDiv(btc_price \div 100, volatility_pct, 10000),
                                   KellySqrtHours(minutes_remaining), 1000)))),
                 btc_price >= strike,
                 minutes_remaining)))

IdleFn == fn = [pc |-> "idle"]

(***************************************************************************)
(* Calls of the fair-value functions: a caller holds a price, a strike, a   *)
(* volatility and the minutes remaining, asks one of the functions, and     *)
(* asks the same function again at another price.                           *)
(***************************************************************************)
FvPrices == {6700000, 6790000, 6799000, 6800000, 6800100, 6810000, 6900000}
FvStrikes == {6775000, 6800000}
FvVols == {0, 3000, 12000}
FvMinutes == {-1, 0, 1, 15, 45}

FairValueOf(variant, price, strike, vol, mins_remaining) ==
    CASE variant = "backtest_combined" -> estimate_fair_value(price, strike, vol, mins_remaining)
      [] variant = "experiment_aggressive" -> bucket_fair_value(price, strike, vol, mins_remaining)
      [] variant = "experiment_v2_honest" -> fair_probability(price, strike, vol, mins_remaining)
      [] OTHER -> estimate_contract_fair_value(price, strike, vol, mins_remaining)

InitFairValue ==
    \E price \in FvPrices, strike \in FvStrikes, vol \in FvVols, mins \in FvMinutes :
        fn = [pc |-> "args", price |-> price, strike |-> strike, vol |-> vol,
              mins_remaining |-> mins]

FairValueCall(variant) ==
    /\ fn.pc = "args"
    /\ fn' = [pc |-> "called", variant |-> variant, price |-> fn.price,
              strike |-> fn.strike, vol |-> fn.vol, mins_remaining |-> fn.mins_remaining,
              value |-> FairValueOf(variant, fn.price, fn.strike, fn.vol, fn.mins_remaining)]
    /\ UNCHANGED <<genVars, tradeVars, btVars, aggVars, yearVars, sweepVars, kellyVars, rankVars, orchVars, agentVars>>

CallCombined == FairValueCall("backtest_combined")
CallAggressive == FairValueCall("experiment_aggressive")
CallHonest == FairValueCall("experiment_v2_honest")
CallKelly == FairValueCall("experiment_kelly_criterion")

\* the same function at another price, the other arguments unchanged
CallAgain ==
    /\ fn.pc = "called"
    /\ \E price2 \in FvPrices :
          fn' = [pc |-> "compared", variant |-> fn.variant, price |-> fn.price,
                 strike |-> fn.strike, vol |-> fn.vol, mins_remaining |-> fn.mins_remaining,
                 value |-> fn.value, price2 |-> price2,
                 value2 |-> FairValueOf(fn.variant, price2, fn.strike, fn.vol,
                                        fn.mins_remaining)]
    /\ UNCHANGED <<genVars, tradeVars, btVars, aggVars, yearVars, sweepVars, kellyVars, rankVars, orchVars, agentVars>>

NextFairValue == CallCombined \/ CallAggressive \/ CallHonest \/ CallKelly \/ CallAgain

(***************************************************************************)
(* Calls of the net-PnL functions: calc_net_pnl (backtest.py) and trade_pnl *)
(* (backtest_addon.py).  Contract prices in pips, PnL in PnL units.         *)
(***************************************************************************)
\* trade_pnl(contracts, entry_dollars, settle_val): FEE_RATE = 0.015 of the
\* winning profit only
trade_pnl(contracts, entry_dollars, settle_val) ==
    LET gross == contracts * (settle_val - entry_dollars) * PNL_PER_PIP
        fee == IF settle_val > entry_dollars
               THEN FEE_PER_PIP * contracts * (PIP - entry_dollars)
               ELSE 0
    IN gross - fee

PnlContracts == {0, 1, 3, 50}
PnlEntries == {0, 100, 2500, 5000, 9900}
PnlExits == {0, 100, 2500, 5000, 9900, 10000}

InitPnl ==
    \E contracts \in PnlContracts, entry \in PnlEntries, exit \in PnlExits,
       exit_type \in {"early", "settlement"} :
        fn = [pc |-> "args", contracts |-> contracts, entry_price |-> entry,
              exit_price |-> exit, exit_type |-> exit_type]

CallCalcNetPnl ==
    /\ fn.pc = "args"
    /\ fn' = [fn EXCEPT !.pc = "calc_net_pnl"] @@
             [pnl |-> calc_net_pnl(fn.contracts, fn.entry_price, fn.exit_price, fn.exit_type)]
    /\ UNCHANGED <<genVars, tradeVars, btVars, aggVars, yearVars, sweepVars, kellyVars, rankVars, orchVars, agentVars>>

\* trade_pnl is only called at settlement, with the settlement value
CallTradePnl ==
    /\ fn.pc = "args"
    /\ fn.exit_type = "settlement"
    /\ fn' = [fn EXCEPT !.pc = "trade_pnl"] @@
             [pnl |-> trade_pnl(fn.contracts, fn.entry_price, fn.exit_price)]
    /\ UNCHANGED <<genVars, tradeVars, btVars, aggVars, yearVars, sweepVars, kellyVars, rankVars, orchVars, agentVars>>

NextPnl == CallCalcNetPnl \/ CallTradePnl

(***************************************************************************)
(* The window grouping of the historical-data scripts: group_into_windows   *)
(* (backtest_stoploss_real.py), group_15min_windows                         *)
(* (backtest_strike_sniper.py) and load_windows (backtest_addon.py).        *)
(* A candle is its open time t in milliseconds; the data are 5-minute       *)
(* candles in chronological order, with candles possibly missing.           *)
(***************************************************************************)
WindowSlots == 8        \* the 5-minute slots the data may cover, bounded
FIVE_MINUTES_MS == 300000

RECURSIVE SlotCandles(_, _)
\* the candles of the slots in S from slot s on, in chronological order
SlotCandles(S, s) ==
    IF s >= WindowSlots THEN <<>>
    ELSE IF s \in S THEN <<[t |-> s * FIVE_MINUTES_MS]>> \o SlotCandles(S, s + 1)
    ELSE SlotCandles(S, s + 1)

\* group_into_windows: the `for j in range(1, 3)` gap check of candles[i:i+3]
NoGap(candles, i) ==
    \A j \in 1..2 : ~(candles[i + j + 1].t - candles[i + j].t > 6 * 60 * 1000)

RECURSIVE GroupFrom(_, _, _)
\* the while loop of group_into_windows from index i (0-based)
GroupFrom(candles, i, windows) ==
    IF ~(i + 2 < Len(candles)) THEN windows
    ELSE IF ((candles[i + 1].t \div 60000) % 60) % 15 # 0
    THEN GroupFrom(candles, i + 1, windows)
    ELSE IF NoGap(candles, i)
    THEN GroupFrom(candles, i + 3,
                   Append(windows, [t |-> candles[i + 1].t,
                                    candles |-> SubSeq(candles, i + 1, i + 3)]))
    ELSE GroupFrom(candles, i + 1, windows)

group_into_windows(candles) == GroupFrom(candles, 0, <<>>)

\* window_start of a candle in group_15min_windows, in seconds
WindowStart(c) == ((c.t \div 1000) \div (15 * 60)) * (15 * 60)

\* buckets[ws]: the candles of the window, in the order of the input
Bucket(candles, ws) == SelectSeq(candles, LAMBDA c : WindowStart(c) = ws)

RECURSIVE BucketsFrom(_, _)
\* `for ws in sorted(buckets.keys())`, over the keys not yet visited
BucketsFrom(candles, keys) ==
    IF keys = {} THEN <<>>
    ELSE LET ws == CHOOSE k \in keys : \A other \in keys : k <= other
             cs == Bucket(candles, ws)
         IN (IF Len(cs) = 3 THEN <<[t |-> ws * 1000, candles |-> cs]>> ELSE <<>>)
                \o BucketsFrom(candles, keys \ {ws})

group_15min_windows(candles) ==
    BucketsFrom(candles, {WindowStart(candles[i]) : i \in 1..Len(candles)})

\* load_windows: [candles[i:i+3] for i in range(0, len(candles) - 2, 3)]; the
\* candles it keeps have lost their t, which the model keeps to tell them apart
load_windows(raw) ==
    [k \in 1..(Len(raw) \div 3) |->
        [t |-> raw[3 * (k - 1) + 1].t, candles |-> SubSeq(raw, 3 * (k - 1) + 1, 3 * k)]]

InitWindows ==
    \E S \in SUBSET (0..(WindowSlots - 1)) :
        fn = [pc |-> "args", candles |-> SlotCandles(S, 0)]

GroupIntoWindows ==
    /\ fn.pc = "args"
    /\ fn' = [pc |-> "group_into_windows", candles |-> fn.candles,
              windows |-> group_into_windows(fn.candles)]
    /\ UNCHANGED <<genVars, tradeVars, btVars, aggVars, yearVars, sweepVars, kellyVars, rankVars, orchVars, agentVars>>

Group15minWindows ==
    /\ fn.pc = "args"
    /\ fn' = [pc |-> "group_15min_windows", candles |-> fn.candles,
              windows |-> group_15min_windows(fn.candles)]
    /\ UNCHANGED <<genVars, tradeVars, btVars, aggVars, yearVars, sweepVars, kellyVars, rankVars, orchVars, agentVars>>

LoadWindows ==
    /\ fn.pc = "args"
    /\ fn' = [pc |-> "load_windows", candles |-> fn.candles,
              windows |-> load_windows(fn.candles)]
    /\ UNCHANGED <<genVars, tradeVars, btVars, aggVars, yearVars, sweepVars, kellyVars, rankVars, orchVars, agentVars>>

NextWindows == GroupIntoWindows \/ Group15minWindows \/ LoadWindows

(***************************************************************************)
(* Calls of the signal evaluators on one candle window: check_conservative *)
(* and check_aggressive (backtest.py) and check_all_signals                 *)
(* (backtest_combined.py).  The windows are the last n candles of a         *)
(* thirteen-hour history around 67,900 dollars whose last four closes, the  *)
(* low and volume of the last complete candle and the low of the current    *)
(* candle vary.                                                             *)
(***************************************************************************)
SigBase == 67900 * 100      \* 67,900 dollars, in cents
SigLengths == {0, 1, 3, 6, 11, 12, 13}
SigHours == {15}        \* hour_utc of the call, inside market hours

SigParams ==
    [older : {SigBase, SigBase + 60000, SigBase - 30000},
     c3 : {SigBase, SigBase - 20000, SigBase - 35000},
     c2 : {SigBase, SigBase - 40000},
     up : {0, 10000, 20000, 30000},
     prevwick : {2000, 30000},
     vol2 : {100, 200},
     lastwick : {2000, 40000}]

\* the close of candle i (1..13) of the history
SigClose(p, i) ==
    IF i <= 9 THEN p.older
    ELSE IF i = 10 THEN SigBase
    ELSE IF i = 11 THEN p.c3
    ELSE IF i = 12 THEN p.c2
    ELSE p.c2 + p.up

SigCandle(p, i) ==
    LET o == SigClose(p, Max(1, i - 1))
        c == SigClose(p, i)
    IN [open_time |-> i - 1, open |-> o, close |-> c,
        high |-> Max(o, c) + 2000,
        low |-> Min(o, c) - (IF i = 12 THEN p.prevwick ELSE IF i = 13 THEN p.lastwick ELSE 2000),
        volume |-> IF i = 12 THEN p.vol2 ELSE 100]

\* history[-n:], the window handed to the evaluator
SigWindow(p, n) == [k \in 1..n |-> SigCandle(p, 13 - n + k)]

\* calc_strike(btc_price, strike_type) of experiment_aggressive.py: "ATM" is
\* round(btc_price / STRIKE_INCREMENT), ties to even, every other type the floor
calc_strike_typed(btc_price, strike_type) ==
    LET q == btc_price \div STRIKE_INCREMENT
        r == btc_price % STRIKE_INCREMENT
    IN IF strike_type # "ATM" THEN q * STRIKE_INCREMENT
       ELSE IF 2 * r < STRIKE_INCREMENT THEN q * STRIKE_INCREMENT
       ELSE IF 2 * r > STRIKE_INCREMENT THEN (q + 1) * STRIKE_INCREMENT
       ELSE IF q % 2 = 0 THEN q * STRIKE_INCREMENT
       ELSE (q + 1) * STRIKE_INCREMENT

\* {"signal": False}
SignalFalse ==
    [signal |-> FALSE, strike |-> 0, entry_price |-> 0, contracts |-> 0,
     fair_value |-> 0, volatility |-> 0]

\* the SMA trend check of check_signal: sma_looseness None (-1) disables it, 0
\* is strict, any other value (in thousandths) allows that deviation
ParamTrend(fast, slow, sma_loose) ==
    IF sma_loose = -1 THEN TRUE
    ELSE IF sma_loose = 0 THEN fast > slow
    ELSE LooseTrend(fast, slow, sma_loose)

\* check_signal(candles, current_price, hour_utc, minute, params) of
\* experiment_aggressive.py; momentum_threshold None is -1; thresholds in
\* hundredths of a percent, volatility in ten-thousandths of a percent
check_signal(candles, current_price, hour_utc, minute, params) ==
    LET mins_remaining == 60 - minute
        sma3 == calc_sma(candles, 3)
        sma6 == calc_sma(candles, 6)
        sma12 == calc_sma(candles, 12)
        mom == calc_momentum_3h(candles, current_price)
        hr == calc_hour_return(candles[Len(candles)], current_price)
        vol == fine_volatility(candles[Len(candles)])
        pos == calc_price_position(candles[Len(candles)])
        strike == calc_strike_typed(current_price, params.strike_type)
        fv == bucket_fair_value(current_price, strike, vol, mins_remaining)
    IN IF ~(14 <= hour_utc /\ hour_utc < 21) THEN SignalFalse
       ELSE IF mins_remaining <= params.min_time_remaining THEN SignalFalse
       ELSE IF sma3 = 0 \/ sma6 = 0 \/ sma12 = 0 THEN SignalFalse
       ELSE IF ~ParamTrend(sma3, sma6, params.sma_looseness)
               \/ ~ParamTrend(sma6, sma12, params.sma_looseness) THEN SignalFalse
       ELSE IF params.momentum_threshold # -1 /\ mom <= params.momentum_threshold
       THEN SignalFalse
       ELSE IF hr <= params.hour_return_threshold THEN SignalFalse
       ELSE IF params.vol_filter = "0.5-3" /\ ~(5000 <= vol /\ vol <= 30000) THEN SignalFalse
       ELSE IF params.vol_filter = "0.3-4" /\ ~(3000 <= vol /\ vol <= 40000) THEN SignalFalse
       ELSE IF params.pos_filter = ">40" /\ pos <= 4000 THEN SignalFalse
       ELSE IF params.pos_filter = ">50" /\ pos <= 5000 THEN SignalFalse
       ELSE IF current_price - strike < params.min_strike_distance THEN SignalFalse
       ELSE IF ~(params.prob_lo <= fv /\ fv <= params.prob_hi) THEN SignalFalse
       ELSE [signal |-> TRUE, strike |-> strike, entry_price |-> params.entry_price,
             contracts |-> params.position_size \div params.entry_price,
             fair_value |-> fv, volatility |-> vol]

\* base of build_experiments, experiment_aggressive.py
AggressiveBase ==
    [strike_type |-> "ATM", entry_price |-> 4000, momentum_threshold |-> -1,
     hour_return_threshold |-> 30, position_size |-> 20 * PIP, vol_filter |-> "none",
     pos_filter |-> "none", sma_looseness |-> 1, min_strike_distance |-> 5000,
     min_time_remaining |-> 15, prob_lo |-> 3500, prob_hi |-> 7000]

\* the experiments "Baseline", "Entry: $0.60", "Entry: $0.75", "Strike: OTM",
\* "SMA: disabled" and "Filter: vol 0.5-3%" of build_experiments
AggressiveParams ==
    {AggressiveBase,
     [AggressiveBase EXCEPT !.entry_price = 6000],
     [AggressiveBase EXCEPT !.entry_price = 7500],
     [AggressiveBase EXCEPT !.strike_type = "OTM"],
     [AggressiveBase EXCEPT !.sma_looseness = -1],
     [AggressiveBase EXCEPT !.vol_filter = "0.5-3"]}

InitSignals ==
    \E p \in SigParams, n \in SigLengths, hour_utc \in SigHours :
        fn = [pc |-> "args", candles |-> SigWindow(p, n),
              current_price |-> SigClose(p, 13), hour_utc |-> hour_utc]

\* candles[-1] of an empty list raises IndexError
IndexRaises(candles) == Len(candles) = 0

\* what the caller of a backtest.py evaluator sees: the signal, or the error
Evaluated(name, raised, signal, signal_name) ==
    [pc |-> name, candles |-> fn.candles, current_price |-> fn.current_price,
     hour_utc |-> fn.hour_utc, raised |-> raised, signal |-> signal,
     signal_name |-> signal_name]

EvaluateConservative ==
    /\ fn.pc = "args"
    /\ fn' = IF IndexRaises(fn.candles)
             THEN Evaluated("check_conservative", TRUE, FALSE, "none")
             ELSE Evaluated("check_conservative", FALSE,
                            check_conservative(fn.candles, fn.current_price,
                                               fn.hour_utc, 0).signal, "none")
    /\ UNCHANGED <<genVars, tradeVars, btVars, aggVars, yearVars, sweepVars, kellyVars, rankVars, orchVars, agentVars>>

EvaluateAggressive ==
    /\ fn.pc = "args"
    /\ fn' = IF IndexRaises(fn.candles)
             THEN Evaluated("check_aggressive", TRUE, FALSE, "none")
             ELSE Evaluated("check_aggressive", FALSE,
                            check_aggressive(fn.candles, fn.current_price,
                                             fn.hour_utc, 0).signal, "none")
    /\ UNCHANGED <<genVars, tradeVars, btVars, aggVars, yearVars, sweepVars, kellyVars, rankVars, orchVars, agentVars>>

\* check_all_signals(candles, current_price) with the default entry_minute=30;
\* None is signal = FALSE
EvaluateAllSignals ==
    /\ fn.pc = "args"
    /\ fn' = Evaluated("check_all_signals", FALSE,
                       check_all_signals(fn.candles, fn.current_price, 30).signal,
                       check_all_signals(fn.candles, fn.current_price, 30).signal_name)
                 @@ [ret |-> check_all_signals(fn.candles, fn.current_price, 30)]
    /\ UNCHANGED <<genVars, tradeVars, btVars, aggVars, yearVars, sweepVars, kellyVars, rankVars, orchVars, agentVars>>

\* check_signal(history, current_price, hour_utc, 30, params)
EvaluateCheckSignal ==
    /\ fn.pc = "args"
    /\ \E params \in AggressiveParams :
        fn' = Evaluated("check_signal", FALSE,
                        check_signal(fn.candles, fn.current_price, fn.hour_utc, 30, params).signal,
                        "none")
              @@ [ret |-> check_signal(fn.candles, fn.current_price, fn.hour_utc, 30, params),
                  params |-> params]
    /\ UNCHANGED <<genVars, tradeVars, btVars, aggVars, yearVars, sweepVars, kellyVars, rankVars, orchVars, agentVars>>

NextSignals ==
    \/ EvaluateConservative
    \/ EvaluateAggressive
    \/ EvaluateAllSignals
    \/ EvaluateCheckSignal

(***************************************************************************)
(* Calls of the arithmetic helpers on degenerate inputs: the indicators of  *)
(* backtest.py, compute_rolling_vol (backtest_strike_sniper.py) and         *)
(* apply_pinning_discount (backtest_combined.py).  A division by zero       *)
(* raises ZeroDivisionError; the caller sees the value or the error.        *)
(***************************************************************************)
\* compute_rolling_vol: r = (w['close'] - w['open']) / w['open'] divides by
\* the open of every window
RollingVolRaises(windows) == \E i \in 1..Len(windows) : windows[i].open = 0

\* the fractional returns of the windows, in hundredths of a percent
ReturnsFrac(windows) == [i \in 1..Len(windows) |-> PctChange(windows[i].close, windows[i].open)]

RECURSIVE SumSq(_, _, _)
\* Len(xs)^2 times the sum of the squared deviations of xs[1..n] from the
\* mean total / Len(xs)
SumSq(xs, n, total) ==
    IF n = 0 THEN 0
    ELSE (Len(xs) * xs[n] - total) * (Len(xs) * xs[n] - total) + SumSq(xs, n - 1, total)

\* sqrt(ss / den), in hundredths of the unit of the deviations; a large ss is
\* divided before it is scaled, to stay within 32 bits
ScaledRoot(ss, den) ==
    IF ss < 200000 THEN Isqrt((ss * 10000) \div den) ELSE Isqrt(ss \div den) * 100

\* statistics.stdev(xs) / math.sqrt(15), in ten-thousandths of a percent
StdevPerSqrtMin(xs) ==
    ScaledRoot(SumSq(xs, Len(xs), SeqSum(xs)), Len(xs) * Len(xs) * (Len(xs) - 1) * 15)

\* compute_rolling_vol(windows, lookback), lookback >= 2; None is -1
compute_rolling_vol(windows, lookback) ==
    [i \in 1..Len(windows) |->
        IF i - 1 < lookback THEN -1
        ELSE StdevPerSqrtMin(SubSeq(ReturnsFrac(windows), i - lookback, i - 1))]

\* apply_pinning_discount: abs(distance) / btc_price * 100 when distance < 0
PinningRaises(btc_price, strike) == btc_price - strike < 0 /\ btc_price = 0

\* <<open, close>> of the candle of the call: zero and near-zero prices, a
\* flat candle and an ordinary one
DegBodies == {<<0, 0>>, <<0, 500>>, <<500, 0>>, <<500, 500>>, <<6790000, 6790000>>, <<6790000, 6800000>>}
DegSpreads == {0, 300}
DegPrices == {0, 6800000}
DegStrikes == {6775000, 6800000}
DegMinutes == {10, 20, 40}

DegCandle(open, close, spread) ==
    [open_time |-> 0, open |-> open, close |-> close, low |-> Min(open, close),
     high |-> Max(open, close) + spread, volume |-> 100]

InitDegenerate ==
    \E body \in DegBodies, spread \in DegSpreads, price \in DegPrices,
       strike \in DegStrikes, mins \in DegMinutes :
        fn = [pc |-> "args", candle |-> DegCandle(body[1], body[2], spread),
              current_price |-> price, strike |-> strike, mins_remaining |-> mins]

\* the window whose oldest candle is the candle of the call
DegHistory == <<fn.candle, DegCandle(6790000, 6795000, 2000), DegCandle(6795000, 6790000, 2000)>>

Returned(name, raised, value) ==
    [pc |-> name, candle |-> fn.candle, current_price |-> fn.current_price,
     strike |-> fn.strike, mins_remaining |-> fn.mins_remaining,
     raised |-> raised, value |-> value]

CallCalcVolatility ==
    /\ fn.pc = "args"
    /\ fn' = Returned("calc_volatility", FALSE, calc_volatility(fn.candle))
    /\ UNCHANGED <<genVars, tradeVars, btVars, aggVars, yearVars, sweepVars, kellyVars, rankVars, orchVars, agentVars>>

CallCalcPricePosition ==
    /\ fn.pc = "args"
    /\ fn' = Returned("calc_price_position", FALSE, calc_price_position(fn.candle))
    /\ UNCHANGED <<genVars, tradeVars, btVars, aggVars, yearVars, sweepVars, kellyVars, rankVars, orchVars, agentVars>>

CallCalcMomentum3h ==
    /\ fn.pc = "args"
    /\ fn' = Returned("calc_momentum_3h", FALSE, calc_momentum_3h(DegHistory, fn.current_price))
    /\ UNCHANGED <<genVars, tradeVars, btVars, aggVars, yearVars, sweepVars, kellyVars, rankVars, orchVars, agentVars>>

CallCalcHourReturn ==
    /\ fn.pc = "args"
    /\ fn' = Returned("calc_hour_return", FALSE, calc_hour_return(fn.candle, fn.current_price))
    /\ UNCHANGED <<genVars, tradeVars, btVars, aggVars, yearVars, sweepVars, kellyVars, rankVars, orchVars, agentVars>>

\* compute_rolling_vol(windows, lookback=2); the value is the last of the series
CallComputeRollingVol ==
    /\ fn.pc = "args"
    /\ fn' = IF RollingVolRaises(DegHistory)
             THEN Returned("compute_rolling_vol", TRUE, 0)
             ELSE Returned("compute_rolling_vol", FALSE, compute_rolling_vol(DegHistory, 2)[3])
    /\ UNCHANGED <<genVars, tradeVars, btVars, aggVars, yearVars, sweepVars, kellyVars, rankVars, orchVars, agentVars>>

CallApplyPinningDiscount ==
    /\ fn.pc = "args"
    /\ fn' = IF PinningRaises(fn.current_price, fn.strike)
             THEN Returned("apply_pinning_discount", TRUE, 0)
             ELSE Returned("apply_pinning_discount", FALSE,
                           apply_pinning_discount(3000, fn.current_price, fn.strike,
                                                  fn.mins_remaining))
    /\ UNCHANGED <<genVars, tradeVars, btVars, aggVars, yearVars, sweepVars, kellyVars, rankVars, orchVars, agentVars>>

NextDegenerate ==
    \/ CallCalcVolatility
    \/ CallCalcPricePosition
    \/ CallCalcMomentum3h
    \/ CallCalcHourReturn
    \/ CallComputeRollingVol
    \/ CallApplyPinningDiscount

(***************************************************************************)
(* Calls of the pinning discount on probabilities from 0 to 1, prices on   *)
(* both sides of the strike and the three time bands.                       *)
(***************************************************************************)
PinFairValues == {0, 50, 100, 101, 3000, 9000, 10000}
PinPrices == {6720000, 6770000, 6799000, 6800000, 6810000, 6830000}
PinStrikes == {6775000, 6800000, 6850000}
PinMinutes == {10, 20, 40}

InitPinning ==
    \E fair_value \in PinFairValues, btc_price \in PinPrices, strike \in PinStrikes,
       mins \in PinMinutes :
        fn = [pc |-> "args", fair_value |-> fair_value, btc_price |-> btc_price,
              strike |-> strike, mins_remaining |-> mins]

\* adj_prob = apply_pinning_discount(raw_prob, btc_price, strike, mins_remaining)
CallPinningDiscount ==
    /\ fn.pc = "args"
    /\ fn' = [fn EXCEPT !.pc = "apply_pinning_discount"]
             @@ [value |-> apply_pinning_discount(fn.fair_value, fn.btc_price, fn.strike,
                                                  fn.mins_remaining)]
    /\ UNCHANGED <<genVars, tradeVars, btVars, aggVars, yearVars, sweepVars, kellyVars, rankVars, orchVars, agentVars>>

CallTimedExitPinningDiscount ==
    /\ fn.pc = "args"
    /\ fn' = [fn EXCEPT !.pc = "timed_exit_pinning_discount"]
             @@ [value |-> timed_exit_pinning_discount(fn.fair_value, fn.btc_price, fn.strike,
                                                       fn.mins_remaining)]
    /\ UNCHANGED <<genVars, tradeVars, btVars, aggVars, yearVars, sweepVars, kellyVars, rankVars, orchVars, agentVars>>

NextPinning == CallPinningDiscount \/ CallTimedExitPinningDiscount

(***************************************************************************)
(* Parameter sweeps that rank their configurations: run_interwindow_sweep  *)
(* (backtest_interwindow.py) on a short series of 15-minute windows, and    *)
(* the ranking tables of experiment_aggressive.py.  Returns are in basis    *)
(* points, trade results in twentieths of a cent, Sharpe ratios in          *)
(* hundredths.                                                              *)
(***************************************************************************)
RankWindows == 7        \* windows handed to the sweep
FIFTEEN_MINUTES == 900  \* 15 * 60 seconds
MIN_TRADES == 5
INTERWINDOW_WIN == 1581     \* (100 - 15.0) * 0.93 = 79.05 cents
INTERWINDOW_LOSS == -300    \* -15.0 cents
SHARPE_SCALE == 15554       \* math.sqrt(96 * 252) = 155.54

\* sharpe(returns): 0.0 below two returns or when they are all equal
sharpe(returns) ==
    LET n == Len(returns)
        ns == Isqrt(SumSq(returns, n, SeqSum(returns)) \div (n - 1))
    IN IF n < 2 THEN 0
       ELSE IF SumSq(returns, n, SeqSum(returns)) = 0 THEN 0
       ELSE IF ns = 0 THEN 0
       ELSE (SeqSum(returns) * SHARPE_SCALE) \div ns

\* the part of param_grid that is swept: thresholds 0.2 and 0.5 percent
InterwindowCombos ==
    << [prev_return_threshold |-> 20, direction |-> "continuation", regime_filter |-> "all"],
       [prev_return_threshold |-> 20, direction |-> "mean_reversion", regime_filter |-> "all"],
       [prev_return_threshold |-> 50, direction |-> "continuation", regime_filter |-> "all"],
       [prev_return_threshold |-> 50, direction |-> "continuation", regime_filter |-> "momentum"],
       [prev_return_threshold |-> 50, direction |-> "mean_reversion", regime_filter |-> "meanReversion"] >>

RECURSIVE InterwindowTrades(_, _, _, _)
\* trade_returns after the pairs of windows (i - 1, i), ..., of one combination
InterwindowTrades(windows, window_regimes, params, i) ==
    IF i > Len(windows) THEN <<>>
    ELSE LET prev_w == windows[i - 1]
             curr_w == windows[i]
             prev_return == PctChange(prev_w.close, prev_w.open)
             curr_return == PctChange(curr_w.close, curr_w.open)
             predict_up == IF params.direction = "continuation" THEN prev_return > 0
                           ELSE ~(prev_return > 0)
             won == predict_up = (curr_return > 0)
             rest == InterwindowTrades(windows, window_regimes, params, i + 1)
         IN IF curr_w.ts - prev_w.ts # FIFTEEN_MINUTES THEN rest
            ELSE IF params.regime_filter # "all" /\ window_regimes[i] # params.regime_filter THEN rest
            ELSE IF Abs(prev_return) < params.prev_return_threshold THEN rest
            ELSE <<IF won THEN INTERWINDOW_WIN ELSE INTERWINDOW_LOSS>> \o rest

\* the entry of results of one combination
InterwindowResult(k, trade_returns) ==
    [combo |-> k, sharpe |-> sharpe(trade_returns), trade_count |-> Len(trade_returns),
     wins |-> Cardinality({j \in 1..Len(trade_returns) : trade_returns[j] > 0}),
     total_pnl |-> SeqSum(trade_returns)]

RECURSIVE SortedBy(_, _)
\* sorted(results, key=lambda r: r[key], reverse=True): stable, largest first
SortedBy(results, key) ==
    IF results = <<>> THEN <<>>
    ELSE LET j == CHOOSE j \in 1..Len(results) :
                      /\ \A k \in 1..Len(results) : results[j][key] >= results[k][key]
                      /\ \A k \in 1..(j - 1) : results[k][key] < results[j][key]
         IN <<results[j]>>
            \o SortedBy([k \in 1..(Len(results) - 1) |->
                            IF k < j THEN results[k] ELSE results[k + 1]], key)

\* the windows of the sweep: each opens where the one before closed and moves
\* by 0.6 percent up or down or by 0.25 percent up
RankMoves == {60, -60, 25}
RankBaseOpen == 68000 * 100

RECURSIVE RankWindowsFrom(_, _, _)
RankWindowsFrom(moves, i, open) ==
    IF i > Len(moves) THEN <<>>
    ELSE <<[ts |-> (i - 1) * FIFTEEN_MINUTES, open |-> open,
            close |-> open + MulDiv(open, moves[i], 10000)]>>
         \o RankWindowsFrom(moves, i + 1, open + MulDiv(open, moves[i], 10000))

\* what compute_regimes returned for the windows
RankRegimes ==
    {[i \in 1..RankWindows |-> "momentum"],
     [i \in 1..RankWindows |-> IF i = 1 THEN "unknown"
                               ELSE IF i % 2 = 0 THEN "momentum" ELSE "meanReversion"]}

InitInterwindow ==
    \E moves \in [1..RankWindows -> RankMoves], window_regimes \in RankRegimes :
        rk = [pc |-> "interwindow", windows |-> RankWindowsFrom(moves, 1, RankBaseOpen),
              regimes |-> window_regimes, c |-> 1, results |-> <<>>]

\* run_interwindow_sweep: one pass of the loop over the combinations
InterwindowCombo ==
    /\ rk.pc = "interwindow"
    /\ rk.c <= Len(InterwindowCombos)
    /\ rk' = [rk EXCEPT
                !.c = rk.c + 1,
                !.results =
                    IF Len(InterwindowTrades(rk.windows, rk.regimes, InterwindowCombos[rk.c], 2))
                           < MIN_TRADES
                    THEN rk.results
                    ELSE Append(rk.results,
                                InterwindowResult(rk.c,
                                    InterwindowTrades(rk.windows, rk.regimes,
                                                      InterwindowCombos[rk.c], 2)))]
    /\ UNCHANGED <<genVars, tradeVars, btVars, aggVars, yearVars, sweepVars, kellyVars, fnVars, orchVars, agentVars>>

\* run_interwindow_sweep returns sorted(results, key=sharpe, reverse=True)
InterwindowReturn ==
    /\ rk.pc = "interwindow"
    /\ rk.c > Len(InterwindowCombos)
    /\ rk' = [pc |-> "done", sweep |-> "interwindow", windows |-> rk.windows,
              regimes |-> rk.regimes, ranked |-> SortedBy(rk.results, "sharpe")]
    /\ UNCHANGED <<genVars, tradeVars, btVars, aggVars, yearVars, sweepVars, kellyVars, fnVars, orchVars, agentVars>>

\* what run_variant of experiment_aggressive.py returned for one path: the
\* number of trades, the total P&L and the drawdown in cents, the win rate
RankPaths == 2          \* NUM_PATHS, bounded
RankExperiments == 3    \* experiments of the sweep, bounded
RankVariantResults ==
    {[trades |-> 0, total_pnl |-> 0, max_dd |-> 0, win_rate |-> 0],
     [trades |-> 4, total_pnl |-> 2400, max_dd |-> 0, win_rate |-> 100],
     [trades |-> 12, total_pnl |-> -1500, max_dd |-> 4000, win_rate |-> 42],
     [trades |-> 30, total_pnl |-> 5200, max_dd |-> 2600, win_rate |-> 60]}

InitAggressiveSweep ==
    \E path_results \in [1..RankExperiments -> [1..RankPaths -> RankVariantResults]] :
        rk = [pc |-> "aggressive", path_results |-> path_results, e |-> 1, results |-> <<>>]

RECURSIVE SumField(_, _, _)
\* sum(r[field] for r in path_results)
SumField(path_results, field, n) ==
    IF n = 0 THEN 0 ELSE path_results[n][field] + SumField(path_results, field, n - 1)

\* the entry of results of one experiment; averages in hundredths
AggressiveResult(id, path_results) ==
    LET n == Len(path_results)
        avg_trades == (SumField(path_results, "trades", n) * 100) \div n
        avg_wr == (SumField(path_results, "win_rate", n) * 100) \div n
        avg_pnl == (SumField(path_results, "total_pnl", n) * 100) \div n
        avg_dd == (SumField(path_results, "max_dd", n) * 100) \div n
    IN [id |-> id, avg_trades |-> avg_trades, avg_wr |-> avg_wr, avg_pnl |-> avg_pnl,
        avg_dd |-> avg_dd,
        risk_adj |-> IF avg_dd > 0 THEN (avg_pnl * 100) \div avg_dd
                     ELSE IF avg_pnl > 0 THEN 99900 ELSE -99900]

\* __main__: one pass of the loop over the experiments
AggressiveExperiment ==
    /\ rk.pc = "aggressive"
    /\ rk.e <= Len(rk.path_results)
    /\ rk' = [rk EXCEPT !.e = rk.e + 1,
                        !.results = Append(rk.results,
                                           AggressiveResult(rk.e, rk.path_results[rk.e]))]
    /\ UNCHANGED <<genVars, tradeVars, btVars, aggVars, yearVars, sweepVars, kellyVars, fnVars, orchVars, agentVars>>

RiskEligible(v) == v.avg_dd > 0 /\ v.avg_trades >= 10 * 100
WinRateEligible(v) == v.avg_trades >= 20 * 100

\* __main__: the full ranking by average P&L, the ranking by risk-adjusted
\* return and the ranking by win rate
AggressiveRank ==
    /\ rk.pc = "aggressive"
    /\ rk.e > Len(rk.path_results)
    /\ rk' = [pc |-> "done", sweep |-> "aggressive", results |-> rk.results,
              ranked |-> SortedBy(rk.results, "avg_pnl"),
              by_risk |-> SortedBy(SelectSeq(rk.results, RiskEligible), "risk_adj"),
              by_wr |-> SortedBy(SelectSeq(rk.results, WinRateEligible), "avg_wr")]
    /\ UNCHANGED <<genVars, tradeVars, btVars, aggVars, yearVars, sweepVars, kellyVars, fnVars, orchVars, agentVars>>

InitRank == InitInterwindow \/ InitAggressiveSweep
NextRank == InterwindowCombo \/ InterwindowReturn \/ AggressiveExperiment \/ AggressiveRank

IdleRank == rk = [pc |-> "idle"]
(***************************************************************************)
(* The orchestrator (orchestrator/main.py): main polls signal.json, passes  *)
(* an actionable signal to claude_agent.execute, appends to                 *)
(* execution-log.json and, after a filled BUY, activates position.json.     *)
(* The strategy engine rewrites signal.json between polls.  One action is   *)
(* one pass of the while loop.  executed lists the calls of                 *)
(* claude_agent.execute in order.                                           *)
(***************************************************************************)
MaxExecutions == 2      \* calls of claude_agent.execute in one run

ACTIONABLE_COMMANDS == {"BUY", "SELL", "PREP", "SETTLE"}

\* the signal files the engine leaves: no file, a file that is not JSON, or a
\* record; command "none" and timestamp "" stand for a missing key
SignalCommands == {"STANDBY", "BUY", "SELL", "HOLD", "none"}
SignalTimestamps == {"", "t1"}
SignalFiles ==
    {[kind |-> "missing", command |-> "none", timestamp |-> ""],
     [kind |-> "unreadable", command |-> "none", timestamp |-> ""]}
    \cup [kind : {"signal"}, command : SignalCommands, timestamp : SignalTimestamps]

\* what claude_agent.execute did: returned success with a final message that
\* has a FILL line ("fill"), a FILL line whose number float() rejects, such as
\* total=18.47. ("fill_bad_number"), or no FILL line ("no_fill"); returned
\* success False ("failed"); or raised ("raised")
ExecOutcomes == {"fill", "fill_bad_number", "no_fill", "failed", "raised"}

\* command not in ACTIONABLE_COMMANDS, read the other way round
IsNotStandby(command) == command # "STANDBY"

\* signal.get("command", "STANDBY") in ACTIONABLE_COMMANDS
IsActionable(command) == command \in ACTIONABLE_COMMANDS

\* the guard of _confirm_fill without the dry-run test
ShouldConfirmFillDryRunToo(command, success, dry_run) == command = "BUY" /\ success

\* command == "BUY" and result.success and not dry_run
ShouldConfirmFill(command, success, dry_run) == command = "BUY" /\ success /\ ~dry_run

\* signal.get("command", "STANDBY")
SignalCommand(signal) == IF signal.command = "none" THEN "STANDBY" ELSE signal.command

\* what the last pass of the loop did
NoPoll == [path |-> "none", outcome |-> "none"]

\* main(dry_run) after last_executed_timestamp = ""
InitOrch ==
    \E dry_run \in BOOLEAN, file \in SignalFiles :
        orch = [pc |-> "polling", dry_run |-> dry_run, signal_file |-> file,
                last_executed_timestamp |-> "",
                position |-> [active |-> FALSE, pending |-> TRUE, filled |-> FALSE],
                log |-> <<>>, executed |-> <<>>, last |-> NoPoll]

\* the engine replaces signal.json
EngineWritesSignal ==
    /\ orch.pc = "polling"
    /\ \E file \in SignalFiles \ {orch.signal_file} :
          orch' = [orch EXCEPT !.signal_file = file]
    /\ UNCHANGED <<genVars, tradeVars, btVars, aggVars, yearVars, sweepVars, kellyVars, fnVars, rankVars, agentVars>>

\* read_signal() returns None
PollNoSignal ==
    /\ orch.pc = "polling"
    /\ orch.signal_file.kind # "signal"
    /\ orch' = [orch EXCEPT !.last = [NoPoll EXCEPT !.path = "no_signal"]]
    /\ UNCHANGED <<genVars, tradeVars, btVars, aggVars, yearVars, sweepVars, kellyVars, fnVars, rankVars, agentVars>>

\* timestamp == last_executed_timestamp
PollAlreadyExecuted ==
    /\ orch.pc = "polling"
    /\ orch.signal_file.kind = "signal"
    /\ orch.signal_file.timestamp = orch.last_executed_timestamp
    /\ orch' = [orch EXCEPT !.last = [NoPoll EXCEPT !.path = "skipped"]]
    /\ UNCHANGED <<genVars, tradeVars, btVars, aggVars, yearVars, sweepVars, kellyVars, fnVars, rankVars, agentVars>>

\* command not in ACTIONABLE_COMMANDS
PollNotActionable ==
    /\ orch.pc = "polling"
    /\ orch.signal_file.kind = "signal"
    /\ orch.signal_file.timestamp # orch.last_executed_timestamp
    /\ ~IsActionable(SignalCommand(orch.signal_file))
    /\ orch' = [orch EXCEPT !.last_executed_timestamp = orch.signal_file.timestamp,
                            !.last = [NoPoll EXCEPT !.path = "not_actionable"]]
    /\ UNCHANGED <<genVars, tradeVars, btVars, aggVars, yearVars, sweepVars, kellyVars, fnVars, rankVars, agentVars>>

\* result.success of each outcome of claude_agent.execute that returns
ResultSuccess(outcome) == outcome \in {"fill", "fill_bad_number", "no_fill"}

\* _confirm_fill(final_message, signal): the position file afterwards; without
\* a FILL line the position stays as it was
confirm_fill(position, outcome) == IF outcome = "fill" THEN [active |-> TRUE, pending |-> FALSE, filled |-> TRUE] ELSE position

\* the pass of the loop raises, and except Exception swallows it: execute
\* raised, log_execution could not write, or float() rejected a FILL number
PassRaises(command, outcome, log_written, dry_run) ==
    \/ outcome = "raised"
    \/ ~log_written
    \/ ShouldConfirmFill(command, ResultSuccess(outcome), dry_run) /\ outcome = "fill_bad_number"

\* === EXECUTE ===: claude_agent.execute, log_execution, _confirm_fill and
\* last_executed_timestamp = timestamp, as far as the pass gets
PollExecute ==
    /\ orch.pc = "polling"
    /\ orch.signal_file.kind = "signal"
    /\ orch.signal_file.timestamp # orch.last_executed_timestamp
    /\ IsActionable(SignalCommand(orch.signal_file))
    /\ Len(orch.executed) < MaxExecutions
    /\ \E outcome \in ExecOutcomes, log_written \in BOOLEAN :
          LET command == SignalCommand(orch.signal_file)
              timestamp == orch.signal_file.timestamp
              call == [command |-> command, timestamp |-> timestamp]
              logged == outcome # "raised" /\ log_written
              raises == PassRaises(command, outcome, log_written, orch.dry_run)
          IN orch' = [orch EXCEPT
                 !.executed = Append(@, call),
                 !.log = IF logged THEN Append(@, call) ELSE @,
                 !.position = IF logged /\ ShouldConfirmFill(command, ResultSuccess(outcome), orch.dry_run)
                              THEN confirm_fill(@, outcome) ELSE @,
                 !.last_executed_timestamp = IF raises THEN @ ELSE timestamp,
                 !.last = [path |-> IF raises THEN "raised" ELSE "executed", outcome |-> outcome]]
    /\ UNCHANGED <<genVars, tradeVars, btVars, aggVars, yearVars, sweepVars, kellyVars, fnVars, rankVars, agentVars>>

\* one pass of the while loop of main
Poll == PollNoSignal \/ PollAlreadyExecuted \/ PollNotActionable \/ PollExecute

NextOrch == EngineWritesSignal \/ PollNoSignal \/ PollAlreadyExecuted \/ PollNotActionable \/ PollExecute

IdleOrch == orch = [pc |-> "idle"]
(***************************************************************************)
(* claude_agent.execute (orchestrator/claude_agent.py): the loop that sends *)
(* the conversation to the model, performs the first tool_use block of the  *)
(* response on the screen and appends the assistant message and one         *)
(* tool_result.  One action is one pass of the for loop.  appended holds    *)
(* the messages the last pass appended to the message list.                 *)
(***************************************************************************)
MAX_LOOPS == 20

\* the actions of the computer tool that execute turns into a screen action
PhysicalActions == {"left_click", "click", "double_click", "right_click", "type", "key", "scroll", "mouse_move"}

\* the blocks of a response: text, or a tool_use with its action; "screenshot"
\* has no physical action and "wait" is an action execute does not know
BlockKinds ==
    {[type |-> "text", action |-> "none"], [type |-> "tool_use", action |-> "left_click"],
     [type |-> "tool_use", action |-> "screenshot"], [type |-> "tool_use", action |-> "wait"]}

MaxBlocks == 2          \* blocks in one response

StopReasons == {"end_turn", "tool_use", "max_tokens"}

\* response.content: up to MaxBlocks blocks in any order
ResponseContents == UNION {[1..n -> BlockKinds] : n \in 0..MaxBlocks}

BlockId(call, i) == <<call, i>>

\* for block in assistant_content: the index of the block at which the loop
\* breaks, 0 when it runs to the end
FirstToolUse(content) ==
    IF \E i \in 1..Len(content) : content[i].type = "tool_use"
    THEN CHOOSE i \in 1..Len(content) :
             /\ content[i].type = "tool_use"
             /\ \A j \in 1..(i - 1) : content[j].type # "tool_use"
    ELSE 0

\* result.final_message = block.text ran for a block of the response
SetsFinalMessage(content) ==
    LET stop == FirstToolUse(content)
        last == IF stop = 0 THEN Len(content) ELSE stop
    IN \E i \in 1..last : content[i].type = "text"

\* if py_action: execute_action(py_action)
PerformsAction(block) == block.action \in PhysicalActions

\* messages.append(assistant), messages.append(user with the tool_result)
AppendedMessages(call, content) ==
    LET stop == FirstToolUse(content)
    IN IF stop = 0 THEN <<>>
       ELSE <<[role |-> "assistant",
               content |-> [i \in 1..Len(content) |-> [type |-> content[i].type, id |-> BlockId(call, i)]]],
              [role |-> "user",
               content |-> <<[type |-> "tool_result", id |-> BlockId(call, stop)]>>]>>

\* the ids of the blocks execute_action ran for in this pass
ActedOn(call, content) ==
    LET stop == FirstToolUse(content)
    IN IF stop # 0 /\ PerformsAction(content[stop]) THEN {BlockId(call, stop)} ELSE {}

\* execute(instruction, dry_run) before the for loop
InitAgent ==
    agt = [pc |-> "calling", calls |-> 0, n_messages |-> 1, appended |-> <<>>, acted |-> {},
           success |-> FALSE, has_final_message |-> FALSE, screenshots_taken |-> 1,
           has_tool_use |-> FALSE, stop_reason |-> "none"]

\* the two breaks of the for loop, with any stop reason but tool_use
\* taken for the end of the turn
FinishedUnlessToolUseStop(has_tool_use, stop_reason) == ~has_tool_use \/ stop_reason # "tool_use"

\* if not has_tool_use: ... break; if response.stop_reason == "end_turn": ... break
Finished(has_tool_use, stop_reason) == ~has_tool_use \/ stop_reason = "end_turn"

\* one pass of for loop in range(MAX_LOOPS): the model answers, the blocks
\* are processed up to the first tool_use, and the loop breaks or goes on
ModelResponds ==
    /\ agt.pc = "calling"
    /\ agt.calls < MAX_LOOPS
    /\ \E content \in ResponseContents, stop_reason \in StopReasons :
          LET call == agt.calls + 1
              has_tool_use == FirstToolUse(content) # 0
              done == Finished(has_tool_use, stop_reason)
          IN agt' = [pc |-> IF done \/ call = MAX_LOOPS THEN "returned" ELSE "calling",
                     calls |-> call,
                     n_messages |-> agt.n_messages + Len(AppendedMessages(call, content)),
                     appended |-> AppendedMessages(call, content),
                     acted |-> ActedOn(call, content),
                     success |-> done,
                     has_final_message |-> agt.has_final_message \/ SetsFinalMessage(content),
                     screenshots_taken |-> agt.screenshots_taken + (IF has_tool_use THEN 1 ELSE 0),
                     has_tool_use |-> has_tool_use,
                     stop_reason |-> stop_reason]
    /\ UNCHANGED <<genVars, tradeVars, btVars, aggVars, yearVars, sweepVars, kellyVars, fnVars, rankVars, orchVars>>

\* client.messages.create raises: execute catches nothing, the exception
\* reaches the caller and no result is returned
CallRaises ==
    /\ agt.pc = "calling"
    /\ agt.calls < MAX_LOOPS
    /\ agt' = [agt EXCEPT !.pc = "raised", !.calls = @ + 1, !.appended = <<>>, !.acted = {},
                          !.has_tool_use = FALSE, !.stop_reason = "none"]
    /\ UNCHANGED <<genVars, tradeVars, btVars, aggVars, yearVars, sweepVars, kellyVars, fnVars, rankVars, orchVars>>

NextAgent == ModelResponds \/ CallRaises

IdleAgent == agt = [pc |-> "idle"]

(***************************************************************************)
(* Specifications: one part runs, the others stay idle.                    *)
(***************************************************************************)
InitSpecGen == InitGen /\ IdleTrade /\ IdleBacktest /\ IdleAggregate /\ IdleYear /\ IdleSweep /\ IdleKelly /\ IdleFn /\ IdleRank /\ IdleOrch /\ IdleAgent
SpecGen == InitSpecGen /\ [][NextGen]_vars

InitSpecTrade == IdleGen /\ InitTrade /\ IdleBacktest /\ IdleAggregate /\ IdleYear /\ IdleSweep /\ IdleKelly /\ IdleFn /\ IdleRank /\ IdleOrch /\ IdleAgent
SpecTrade == InitSpecTrade /\ [][NextTrade]_vars

InitSpecBacktest == IdleGen /\ IdleTrade /\ InitBacktest /\ IdleAggregate /\ IdleYear /\ IdleSweep /\ IdleKelly /\ IdleFn /\ IdleRank /\ IdleOrch /\ IdleAgent
SpecBacktest == InitSpecBacktest /\ [][NextBacktest]_vars

InitSpecAggregate == IdleGen /\ IdleTrade /\ IdleBacktest /\ InitAggregate /\ IdleYear /\ IdleSweep /\ IdleKelly /\ IdleFn /\ IdleRank /\ IdleOrch /\ IdleAgent
SpecAggregate == InitSpecAggregate /\ [][NextAggregate]_vars

InitSpecYear == IdleGen /\ IdleTrade /\ IdleBacktest /\ IdleAggregate /\ InitYear /\ IdleSweep /\ IdleKelly /\ IdleFn /\ IdleRank /\ IdleOrch /\ IdleAgent
SpecYear == InitSpecYear /\ [][NextYear]_vars

InitSpecSweep == IdleGen /\ IdleTrade /\ IdleBacktest /\ IdleAggregate /\ IdleYear /\ InitSweep /\ IdleKelly /\ IdleFn /\ IdleRank /\ IdleOrch /\ IdleAgent
SpecSweep == InitSpecSweep /\ [][NextSweep]_vars

InitSpecKelly == IdleGen /\ IdleTrade /\ IdleBacktest /\ IdleAggregate /\ IdleYear /\ IdleSweep /\ InitKelly /\ IdleFn /\ IdleRank /\ IdleOrch /\ IdleAgent
SpecKelly == InitSpecKelly /\ [][NextKelly]_vars

InitSpecFairValue == IdleGen /\ IdleTrade /\ IdleBacktest /\ IdleAggregate /\ IdleYear /\ IdleSweep /\ IdleKelly /\ InitFairValue /\ IdleRank /\ IdleOrch /\ IdleAgent
SpecFairValue == InitSpecFairValue /\ [][NextFairValue]_vars

InitSpecPnl == IdleGen /\ IdleTrade /\ IdleBacktest /\ IdleAggregate /\ IdleYear /\ IdleSweep /\ IdleKelly /\ InitPnl /\ IdleRank /\ IdleOrch /\ IdleAgent
SpecPnl == InitSpecPnl /\ [][NextPnl]_vars

InitSpecWindows == IdleGen /\ IdleTrade /\ IdleBacktest /\ IdleAggregate /\ IdleYear /\ IdleSweep /\ IdleKelly /\ InitWindows /\ IdleRank /\ IdleOrch /\ IdleAgent
SpecWindows == InitSpecWindows /\ [][NextWindows]_vars

InitSpecSignals == IdleGen /\ IdleTrade /\ IdleBacktest /\ IdleAggregate /\ IdleYear /\ IdleSweep /\ IdleKelly /\ InitSignals /\ IdleRank /\ IdleOrch /\ IdleAgent
SpecSignals == InitSpecSignals /\ [][NextSignals]_vars

InitSpecDegenerate == IdleGen /\ IdleTrade /\ IdleBacktest /\ IdleAggregate /\ IdleYear /\ IdleSweep /\ IdleKelly /\ InitDegenerate /\ IdleRank /\ IdleOrch /\ IdleAgent
SpecDegenerate == InitSpecDegenerate /\ [][NextDegenerate]_vars

InitSpecPinning == IdleGen /\ IdleTrade /\ IdleBacktest /\ IdleAggregate /\ IdleYear /\ IdleSweep /\ IdleKelly /\ InitPinning /\ IdleRank /\ IdleOrch /\ IdleAgent
SpecPinning == InitSpecPinning /\ [][NextPinning]_vars

InitSpecRank == IdleGen /\ IdleTrade /\ IdleBacktest /\ IdleAggregate /\ IdleYear /\ IdleSweep /\ IdleKelly /\ IdleFn /\ InitRank /\ IdleOrch /\ IdleAgent
SpecRank == InitSpecRank /\ [][NextRank]_vars

InitSpecOrchestrator == IdleGen /\ IdleTrade /\ IdleBacktest /\ IdleAggregate /\ IdleYear /\ IdleSweep /\ IdleKelly /\ IdleFn /\ IdleRank /\ InitOrch /\ IdleAgent
SpecOrchestrator == InitSpecOrchestrator /\ [][NextOrch]_vars

InitSpecAgent == IdleGen /\ IdleTrade /\ IdleBacktest /\ IdleAggregate /\ IdleYear /\ IdleSweep /\ IdleKelly /\ IdleFn /\ IdleRank /\ IdleOrch /\ InitAgent
SpecAgent == InitSpecAgent /\ [][NextAgent]_vars

\* while True: every pass ends in time.sleep(POLL_INTERVAL) and the next pass
\* follows, so a pass that can change something is taken
SpecOrchestratorFair == InitSpecOrchestrator /\ [][NextOrch]_vars /\ WF_vars(Poll)

(***************************************************************************)
(* Claims                                                                  *)
(***************************************************************************)

\* C1: two calls of the generator with the same seed (and days) return the
\* identical candle sequence, whatever other calls ran interleaved with them.
C1_SameSeedSameCandles ==
    \A a, b \in Gens :
        (gen[a].pc = "done" /\ gen[b].pc = "done" /\ gen[a].seed = gen[b].seed)
            => gen[a].candles = gen[b].candles


ExitOutcomes ==
    {"win", "loss", "early_exit_critical", "early_exit_ev", "early_exit_high_risk"}
EarlyOutcomes == {"early_exit_critical", "early_exit_ev", "early_exit_high_risk"}

RECURSIVE CountOutcomes(_, _)
CountOutcomes(details, S) ==
    IF details = <<>> THEN 0
    ELSE (IF details[1].outcome \in S THEN 1 ELSE 0) + CountOutcomes(Tail(details), S)

\* C4: in run_backtest every call of simulate_trade has a following candle and
\* returns one of win, loss, early_exit_critical, early_exit_ev,
\* early_exit_high_risk, never no_data; every counted signal is exactly one
\* recorded trade with one outcome, and a trade that exited early is not also
\* counted as settled.
C4_EverySignalOneTrade ==
    /\ bt.last.outcome \in ExitOutcomes \cup {"none"}
    /\ \A n \in StrategyNames :
          LET r == bt.results[n]
          IN /\ r.signals = r.trades
             /\ r.trades = Len(r.trade_details)
             /\ r.trades = Len(r.pnl_series)
             /\ \A j \in 1..Len(r.trade_details) : r.trade_details[j].outcome \in ExitOutcomes
             /\ r.early_exits = CountOutcomes(r.trade_details, EarlyOutcomes)
             /\ r.early_exits + CountOutcomes(r.trade_details, {"win", "loss"}) = r.trades
             /\ r.wins + r.losses = r.trades

\* C4 witness: a finished run in which one strategy signalled on both candles
\* of the loop, one trade exiting early and the other held to settlement.
C4_Witness ==
    /\ bt.pc = "done"
    /\ \E n \in StrategyNames :
          /\ bt.results[n].signals = 2
          /\ bt.results[n].early_exits = 1
          /\ CountOutcomes(bt.results[n].trade_details, {"win", "loss"}) = 1

\* the trade of the trade simulators of backtest.py and backtest_real.py,
\* resolved from a following candle
C5_Resolved ==
    /\ tr.pc = "resolved"
    /\ tr.sim \in {"backtest", "backtest_real"}
    /\ tr.candles_after # <<>>
C5_Metrics ==
    ExitMetrics(tr.entry_price, tr.strike, tr.contracts, tr.candles_after[1], tr.volatility)
C5_Critical == C5_Metrics.ror >= 50
C5_NegativeEv ==
    C5_Metrics.settle_ev < C5_Metrics.early_exit_pnl /\ C5_Metrics.early_exit_pnl > 0
C5_HighRiskLate ==
    /\ C5_Metrics.late_ror >= 30
    /\ 5 * C5_Metrics.late_settle_ev <= 6 * C5_Metrics.late_exit_pnl
C5_Outcome(kind) ==
    IF tr.sim = "backtest"
    THEN CASE kind = "critical" -> "early_exit_critical"
           [] kind = "ev" -> "early_exit_ev"
           [] kind = "late" -> "early_exit_high_risk"
    ELSE CASE kind = "critical" -> "early_critical"
           [] kind = "ev" -> "early_neg_ev"
           [] kind = "late" -> "early_high_risk"

\* C5: the exit decision follows a fixed priority.  Risk of ruin >= 0.5 at 30
\* minutes remaining exits as critical risk; otherwise settle EV < early exit
\* PnL with early exit PnL > 0 exits as negative EV; otherwise the trade exits
\* as high risk at 10 minutes remaining exactly when late risk of ruin >= 0.3
\* and late settle EV <= 1.2 x late exit PnL; only otherwise is it settled as
\* win or loss.  An exit pays the PnL of the checkpoint that fired.
C5_ExitPriority ==
    C5_Resolved =>
        /\ C5_Critical =>
              /\ tr.result.outcome = C5_Outcome("critical")
              /\ tr.result.pnl = C5_Metrics.early_exit_pnl
        /\ (~C5_Critical /\ C5_NegativeEv) =>
              /\ tr.result.outcome = C5_Outcome("ev")
              /\ tr.result.pnl = C5_Metrics.early_exit_pnl
        /\ (~C5_Critical /\ ~C5_NegativeEv) =>
              /\ (tr.result.outcome = C5_Outcome("late")) <=> C5_HighRiskLate
              /\ C5_HighRiskLate => tr.result.pnl = C5_Metrics.late_exit_pnl
              /\ ~C5_HighRiskLate =>
                    /\ tr.result.outcome \in {"win", "loss"}
                    /\ tr.result.pnl \in {C5_Metrics.settle_win_pnl, C5_Metrics.settle_lose_pnl}

\* C5 witness: simulate_trade exited at the 30-minute checkpoint for negative
\* EV although the condition of the 10-minute checkpoint held as well.
C5_Witness ==
    /\ C5_Resolved
    /\ tr.sim = "backtest"
    /\ tr.result.outcome = "early_exit_ev"
    /\ C5_HighRiskLate
    /\ C5_Metrics.late_exit_pnl # C5_Metrics.early_exit_pnl

\* the price a simulator settles a held trade at: the close of the following
\* candle, in backtest_real.py its open
C6_SettlementPrice ==
    IF tr.sim = "backtest_real" THEN tr.candles_after[1].open ELSE tr.candles_after[1].close

\* C6: in every trade simulator a YES trade held to settlement is a win if and
\* only if the settlement price is strictly greater than the strike; a
\* settlement price equal to the strike is a loss.
C6_StrictWin ==
    (tr.pc = "resolved" /\ tr.candles_after # <<>> /\ tr.result.outcome \in {"win", "loss"})
        => (tr.result.outcome = "win" <=> C6_SettlementPrice > tr.strike)

\* C10: aggregate_results returns the same aggregate for every permutation of
\* the list of per-path results.
C10_OrderIrrelevant == ag.pc = "done" => ag.again = ag.agg

\* C2: the result run_variant returns for one (experiment, path) pair is the
\* same whatever the position of the experiment in the list: a second run of
\* the sweep on the same paths with the experiments in another order returns,
\* for every pair, the result of the first run.
C2_NoSharedRandomState ==
    (sw.pc = "done" /\ sw.proc = 2) => sw.results = sw.first.results

\* C3: two processes running the program with the same seed and configuration
\* on the same candles derive the same per-path generator seed in run_year and
\* return identical trade outcomes and results.
C3_SameSeedSameResult ==
    (yr.pc = "done" /\ yr.proc = 2 /\ yr.candles = yr.first.candles)
        => /\ yr.seed = yr.first.seed
           /\ yr.calls = yr.first.calls
           /\ YearResult(yr) = yr.first.result

\* the inputs of one call of simulate_trade, and what it returned
C7_Inputs(c) == <<c.entry_price, c.strike, c.contracts, c.current_candle, c.vol>>
C7_Outcome(c) == <<c.result_type, c.pnl>>

\* C7: the outcome and PnL of a trade depend only on the trade's own inputs:
\* in two runs of one path seed in the same process, two trades with the same
\* entry price, strike, contracts, candle and volatility resolve alike, whatever
\* other trades were resolved before them.
C7_NoCrossTradeState ==
    (yr.pc \in {"loop", "done"} /\ yr.proc = 2 /\ yr.salt = yr.first.salt)
        => \A a \in 1..Len(yr.first.calls), b \in 1..Len(yr.calls) :
              C7_Inputs(yr.first.calls[a]) = C7_Inputs(yr.calls[b])
                  => C7_Outcome(yr.first.calls[a]) = C7_Outcome(yr.calls[b])

\* one step inside one call of run_year
C8_Step == yr.pc = "loop" /\ yr'.pc \in {"loop", "done"}
\* the bankroll is below half a position (10 dollars)
C8_BelowHalfPosition == yr.pc = "loop" /\ yr.bankroll < 10 * PIP * PNL_PER_PIP
C8_PnlOfCalls == SeqSum([j \in 1..Len(yr.calls) |-> yr.calls[j].pnl])

\* C8: ruin is a terminal flag of the path.  The loop step that finds the
\* bankroll unable to afford half a position marks the path; a marked path is
\* never unmarked and records no further trade; the reported total PnL and
\* final bankroll are those accumulated by the recorded trades; and the run
\* goes on to its return: a marked path always has a next step, and every
\* step that stays in the loop moves to the next candle.
C8_RuinTerminal ==
    /\ [][C8_Step =>
            /\ yr'.pc = "loop" => (yr'.i = yr.i + 1 /\ yr'.i <= Len(yr.candles))
            /\ (C8_BelowHalfPosition /\ yr'.i > yr.i) => yr'.ruin_hit
            /\ yr.ruin_hit =>
                  /\ yr'.ruin_hit
                  /\ yr'.calls = yr.calls
                  /\ yr'.trades = yr.trades
                  /\ yr'.total_pnl = yr.total_pnl
                  /\ yr'.bankroll = yr.bankroll
            /\ (~yr.ruin_hit /\ yr'.ruin_hit) => C8_BelowHalfPosition]_vars
    /\ [](yr.pc \in {"loop", "done"} =>
            /\ YearResult(yr).total_pnl = C8_PnlOfCalls
            /\ YearResult(yr).final_bankroll = 100 * PIP * PNL_PER_PIP + C8_PnlOfCalls
            /\ YearResult(yr).trades = Len(yr.calls))
    /\ []((yr.pc = "loop" /\ yr.ruin_hit) => ENABLED (YearRuin \/ YearReturn))

\* C8 witness: a ruined path that has returned, with the trades before ruin.
C8_Witness ==
    /\ yr.pc = "done"
    /\ yr.ruin_hit
    /\ yr.trades >= 4
    /\ yr.i = Len(yr.candles)

\* C9: for every trade entered, contracts x entry price x (1 + taker fee) is
\* at most the bankroll at entry, and the bankroll is never negative.
C9_PositionWithinBankroll ==
    yr.pc \in {"loop", "done"} =>
        /\ \A j \in 1..Len(yr.calls) :
              yr.calls[j].contracts * yr.calls[j].entry_price * (PNL_PER_PIP + FEE_PER_PIP)
                  <= yr.calls[j].bankroll
        /\ yr.bankroll >= 0
\* C11: every generated candle has high >= max(open, close) and
\* low <= min(open, close), for the candles of generate_realistic_btc_data
\* and for those of generate_btc_candles.
C11_CandleShape(c) ==
    /\ c.high >= Max(c.open, c.close)
    /\ c.low <= Min(c.open, c.close)
C11_HighLowBracket ==
    /\ \A g \in Gens :
           \A i \in 1..Len(gen[g].candles) : C11_CandleShape(gen[g].candles[i])
    /\ kg.pc = "idle" \/
           \A i \in 1..Len(kg.candles) : C11_CandleShape(kg.candles[i])


\* C12: for minutes_remaining > 0 the fair value of estimate_fair_value
\* (backtest_combined.py, experiment_aggressive.py) and of fair_probability
\* lies in [0.01, 0.99] for every price, strike and volatility; exactly 0 or
\* exactly 1 is returned only at minutes_remaining <= 0.
C12_ClampedFairValue ==
    (/\ fn.pc = "called"
     /\ fn.variant \in {"backtest_combined", "experiment_aggressive", "experiment_v2_honest"})
        => /\ fn.mins_remaining > 0 => (fn.value >= 100 /\ fn.value <= 9900)
           /\ fn.value \in {0, PIP} => fn.mins_remaining <= 0

\* C13: at minutes_remaining <= 0 the fair value is the hard indicator, for
\* every volatility: 1.0 if price > strike, otherwise 0.0 (so 0.0 at
\* price = strike), for estimate_fair_value of backtest_combined.py,
\* fair_probability and estimate_contract_fair_value.
C13_HardIndicatorAtExpiry ==
    (/\ fn.pc = "called"
     /\ fn.variant \in {"backtest_combined", "experiment_v2_honest", "experiment_kelly_criterion"}
     /\ fn.mins_remaining <= 0)
        => fn.value = (IF fn.price > fn.strike THEN PIP ELSE 0)

C15_Fee(contracts, price) == contracts * price * FEE_PER_PIP

\* C15: every net-PnL function charges the taker fee on the entry cost for
\* every trade and on the exit revenue only when the exit type is "early";
\* so for contracts > 0 and entry price > 0 the net PnL of a settlement exit at
\* the entry price is strictly negative and equals minus the entry fee.
C15_FeeOnEntryAlways ==
    fn.pc \in {"calc_net_pnl", "trade_pnl"}
        => /\ fn.pnl = fn.contracts * (fn.exit_price - fn.entry_price) * PNL_PER_PIP
                       - C15_Fee(fn.contracts, fn.entry_price)
                       - (IF fn.exit_type = "early"
                          THEN C15_Fee(fn.contracts, fn.exit_price) ELSE 0)
           /\ (/\ fn.contracts > 0
               /\ fn.entry_price > 0
               /\ fn.exit_price = fn.entry_price
               /\ fn.exit_type = "settlement")
                  => (fn.pnl < 0 /\ fn.pnl = -C15_Fee(fn.contracts, fn.entry_price))

\* C15 as amended: calc_net_pnl charges the fee on entry always and on exit
\* only when early, so a settlement exit at the entry price nets minus the
\* entry fee; trade_pnl charges the fee on the profit of a winning trade only,
\* so a settlement at the entry value nets exactly 0.
C15_FeePerFunction ==
    /\ fn.pc = "calc_net_pnl" => C15_FeeOnEntryAlways
    /\ fn.pc = "trade_pnl"
          => /\ fn.pnl = fn.contracts * (fn.exit_price - fn.entry_price) * PNL_PER_PIP
                         - (IF fn.exit_price > fn.entry_price
                            THEN C15_Fee(fn.contracts, PIP - fn.entry_price) ELSE 0)
             /\ fn.exit_price = fn.entry_price => fn.pnl = 0

\* calc_net_pnl returned from a settlement exit at the entry price of a real position
C15_Witness ==
    /\ fn.pc = "calc_net_pnl"
    /\ fn.contracts = 50
    /\ fn.entry_price = 2500
    /\ fn.exit_price = 2500
    /\ fn.exit_type = "settlement"
    /\ fn.pnl = -(50 * 2500 * FEE_PER_PIP)


\* C16: the signal count of run_backtest is non-increasing in
\* min_strike_distance: on the same candles, the strategy run with the larger
\* minimum strike distance never counts more signals than the same strategy
\* run with the smaller one.
C16_SignalsNonIncreasing ==
    bt.pc # "idle" =>
        \A a, b \in 1..Len(Strategies) :
            (/\ Strategies[a].fn = Strategies[b].fn
             /\ Strategies[a].min_strike_dist <= Strategies[b].min_strike_dist
             /\ bt.pc = "done" \/ a <= b)
                => bt.results[Strategies[b].name].signals
                       <= bt.results[Strategies[a].name].signals

\* a finished run in which the stricter filter dropped a signal and kept one
C16_Witness ==
    /\ bt.pc = "done"
    /\ \E a, b \in 1..Len(Strategies) :
          /\ Strategies[a].fn = Strategies[b].fn
          /\ Strategies[a].min_strike_dist < Strategies[b].min_strike_dist
          /\ bt.results[Strategies[b].name].signals >= 1
          /\ bt.results[Strategies[b].name].signals
                 < bt.results[Strategies[a].name].signals


\* the 15-minute interval a candle belongs to
C17_Interval(c) == c.t \div (3 * FIVE_MINUTES_MS)

\* C17: a 15-minute window is emitted only when all three 5-minute candles of
\* one 15-minute-aligned interval are present: every emitted window holds
\* three candles, at minutes 0, 5 and 10 of one aligned interval, so no window
\* mixes intervals and a gap or misaligned start yields no window.
C17_OnlyCompleteWindows ==
    fn.pc \in {"group_into_windows", "group_15min_windows", "load_windows"}
        => \A k \in 1..Len(fn.windows) :
              LET w == fn.windows[k].candles
              IN /\ Len(w) = 3
                 /\ \A j \in 1..3 :
                       w[j].t = (3 * C17_Interval(w[1]) + (j - 1)) * FIVE_MINUTES_MS


\* C18: with fewer candles than the longest indicator lookback (12), the empty
\* window included, every signal evaluator reports no signal and does not
\* raise.
C18_NoSignalOnShortHistory ==
    (/\ fn.pc \in {"check_conservative", "check_aggressive", "check_all_signals"}
     /\ Len(fn.candles) < 12)
        => (~fn.raised /\ ~fn.signal)


\* the priority order of the signal rules
C20_Priority ==
    <<"ROLLING_MOMENTUM", "DIP_RECOVERY", "MULTI_HOUR", "VOLUME_MOMENTUM", "PSYCH_LEVEL",
      "SELLOFF_RECOVERY", "VOL_EXPANSION">>

C20_ShortTrend(candles) == LooseTrend(calc_sma(candles, 3), calc_sma(candles, 6), SMA_LOOSENESS)
C20_MedTrend(candles) == LooseTrend(calc_sma(candles, 6), calc_sma(candles, 12), SMA_LOOSENESS)

\* the condition of rule k of the priority order on a window of at least 12 candles
C20_RuleHolds(k, candles, price) ==
    CASE k = 1 -> /\ calc_rolling_return(candles, price, 1) > ROLLING_MIN_RETURN
                  /\ C20_ShortTrend(candles)
                  /\ C20_MedTrend(candles)
      [] k = 2 -> /\ calc_dip_recovery(candles, price).dip_pct < DIP_MIN_PCT
                  /\ calc_dip_recovery(candles, price).recovery_pct > DIP_MIN_RECOVERY
                  /\ calc_dip_recovery(candles, price).is_bouncing
      [] k = 3 -> /\ calc_rolling_return(candles, price, 1) > MULTI_MIN_1H
                  /\ calc_rolling_return(candles, price, 2) > MULTI_MIN_2H
                  /\ C20_ShortTrend(candles)
      [] k = 4 -> /\ calc_volume_ratio(candles, 6) >= VOLUME_MIN_RATIO
                  /\ calc_rolling_return(candles, price, 1) > VOLUME_MIN_RETURN
                  /\ C20_ShortTrend(candles)
      [] k = 5 -> /\ crossed_above_psych_level(candles, price, PSYCH_INCREMENT)
                  /\ C20_ShortTrend(candles)
      [] k = 6 -> /\ candles[Len(candles) - 3].close > 0
                  /\ PctDown(candles[Len(candles) - 1].close, candles[Len(candles) - 3].close)
                         < SELLOFF_MIN_DROP
                  /\ calc_rolling_return(candles, price, 1) > SELLOFF_MIN_BOUNCE
      [] OTHER -> /\ vol_expansion_ratio(candles) >= VOL_EXPANSION_MIN
                  /\ calc_rolling_return(candles, price, 1) > VOL_EXPANSION_MIN_RET
                  /\ C20_ShortTrend(candles)

\* C20: the rule check_all_signals reports for a signal is the first rule of
\* the priority order (rolling momentum, dip recovery, multi-hour momentum,
\* volume momentum, psychological level, selloff recovery, volatility
\* expansion) whose condition holds; no later rule overrides it; and no signal
\* is reported when no rule's condition holds.
C20_FirstMatchWins ==
    fn.pc = "check_all_signals" =>
        IF Len(fn.candles) < 12 THEN ~fn.signal
        ELSE /\ fn.signal =>
                  \E k \in 1..7 :
                      /\ fn.signal_name = C20_Priority[k]
                      /\ C20_RuleHolds(k, fn.candles, fn.current_price)
                      /\ \A j \in 1..(k - 1) :
                            ~C20_RuleHolds(j, fn.candles, fn.current_price)
             /\ (\A k \in 1..7 : ~C20_RuleHolds(k, fn.candles, fn.current_price))
                  => ~fn.signal

\* a reported signal whose rule is not the last one that holds: a later rule
\* of the order holds too and did not override it
C20_Witness ==
    /\ fn.pc = "check_all_signals"
    /\ fn.signal
    /\ \E k \in 2..6 :
          /\ fn.signal_name = C20_Priority[k]
          /\ \E j \in (k + 1)..7 : C20_RuleHolds(j, fn.candles, fn.current_price)


\* C19: degenerate arithmetic never raises: a helper whose denominator is zero
\* (open = 0, high = low, a zero reference close) returns its neutral value,
\* 0, or 50 for the price position, instead of raising a division error.
C19_NeverRaises ==
    fn.pc \in {"calc_volatility", "calc_price_position", "calc_momentum_3h", "calc_hour_return",
               "compute_rolling_vol", "apply_pinning_discount"}
        => /\ ~fn.raised
           /\ (fn.pc \in {"calc_volatility", "calc_hour_return"} /\ fn.candle.open = 0)
                  => fn.value = 0
           /\ (fn.pc = "calc_momentum_3h" /\ fn.candle.close = 0) => fn.value = 0
           /\ (fn.pc = "calc_price_position" /\ fn.candle.high = fn.candle.low)
                  => fn.value = 5000


\* the moving average fast agrees with slow within the tolerance of 0.3 %
C21_Agree(fast, slow) == fast > slow \/ (slow > 0 /\ (slow - fast) * 1000 < 3 * slow)
C21_Short(candles) == C21_Agree(calc_sma(candles, 3), calc_sma(candles, 6))
C21_Medium(candles) == C21_Agree(calc_sma(candles, 6), calc_sma(candles, 12))

C22_EntryAndContracts ==
    /\ (fn.pc = "check_all_signals" /\ fn.signal)
           => /\ fn.ret.entry_price % 100 = 0
              /\ fn.ret.entry_price <= fn.ret.fv
              /\ fn.ret.entry_price <= MAX_ENTRY_PRICE
              /\ fn.ret.contracts = POSITION_SIZE \div fn.ret.entry_price
              /\ fn.ret.contracts >= 1
    /\ (fn.pc = "check_signal" /\ fn.signal)
           => /\ fn.ret.entry_price % 100 = 0
              /\ fn.ret.entry_price <= fn.ret.fair_value
              /\ fn.ret.contracts = fn.params.position_size \div fn.ret.entry_price
              /\ fn.ret.contracts >= 1

\* C23: the pinning discount only ever reduces probability: for every fair
\* value, price, strike and minutes remaining the adjusted probability it
\* returns is at most the fair value passed in.
C23_OnlyReduces ==
    fn.pc \in {"apply_pinning_discount", "timed_exit_pinning_discount"}
        => fn.value <= fn.fair_value

\* C24: a configuration that produced fewer than the minimum trade count (5)
\* never appears in the ranked results of a sweep.
C24_RankedHaveMinTrades ==
    rk.pc = "done" =>
        \A i \in 1..Len(rk.ranked) :
            IF rk.sweep = "interwindow" THEN rk.ranked[i].trade_count >= MIN_TRADES
            ELSE rk.ranked[i].avg_trades >= MIN_TRADES * 100


\* C25: a signal, identified by its timestamp, is passed to
\* claude_agent.execute at most once in a run of the orchestrator, whatever
\* other signals appear in between.
C25_ExecutedAtMostOnce ==
    orch.pc = "polling" =>
        \A i, j \in 1..Len(orch.executed) :
            orch.executed[i].timestamp = orch.executed[j].timestamp => i = j


\* C26: position.json is switched to active (active, not pending, with the
\* fill data) only by the pass that executed a BUY signal in live mode with a
\* successful result whose final message has a parsable FILL line; no other
\* pass writes the position file.
C26_ActivatedOnlyByFilledBuy ==
    [][(orch.pc = "polling" /\ orch'.position # orch.position) =>
          /\ orch.signal_file.kind = "signal" /\ orch.signal_file.command = "BUY"
          /\ ~orch.dry_run
          /\ orch'.last.outcome = "fill"
          /\ Len(orch'.executed) = Len(orch.executed) + 1
          /\ orch'.position = [active |-> TRUE, pending |-> FALSE, filled |-> TRUE]]_vars

\* a live BUY was executed and its fill activated the position
C26_Witness ==
    /\ orch.pc = "polling"
    /\ orch.last.outcome = "fill" /\ orch.last.path = "executed"
    /\ orch.executed[Len(orch.executed)].command = "BUY"
    /\ ~orch.dry_run
    /\ orch.position.active /\ ~orch.position.pending /\ orch.position.filled

\* C27: claude_agent.execute is called, and an execution-log entry written,
\* only in a pass that read a signal whose command is BUY, SELL, PREP or
\* SETTLE; a signal with STANDBY, no command or any other command triggers
\* neither.
C27_OnlyActionableExecuted ==
    [][(orch.pc = "polling" /\ (orch'.executed # orch.executed \/ orch'.log # orch.log)) =>
          /\ orch.signal_file.kind = "signal"
          /\ orch.signal_file.command \in {"BUY", "SELL", "PREP", "SETTLE"}]_vars

\* a pass read a signal with another command and called nothing, in a run
\* that executed and logged an actionable signal before
C27_Witness ==
    /\ orch.pc = "polling"
    /\ orch.last.path = "not_actionable"
    /\ orch.signal_file.command \in {"HOLD", "none", "STANDBY"}
    /\ orch.signal_file.timestamp = orch.last_executed_timestamp
    /\ Len(orch.executed) = 1 /\ Len(orch.log) = 1

\* signal.json holds the readable actionable signal f, no call of
\* claude_agent.execute had its timestamp, and the run may still call it
PendingSignal(f) ==
    /\ orch.signal_file = f
    /\ f.kind = "signal" /\ f.command \in {"BUY", "SELL", "PREP", "SETTLE"}
    /\ \A i \in 1..Len(orch.executed) : orch.executed[i].timestamp # f.timestamp
    /\ Len(orch.executed) < MaxExecutions

\* C28: while the orchestrator keeps polling, a readable actionable signal
\* that has not been executed is eventually passed to claude_agent.execute,
\* unless it is replaced in signal.json first.
C28_EventuallyExecuted ==
    \A f \in SignalFiles :
        PendingSignal(f) ~>
            \/ orch.signal_file # f
            \/ \E i \in 1..Len(orch.executed) : orch.executed[i].timestamp = f.timestamp


\* the tool_use ids of an assistant message
ToolUseIds(message) == {message.content[i].id : i \in {k \in 1..Len(message.content) : message.content[k].type = "tool_use"}}

\* the ids the tool_result blocks of a user message answer
ToolResultIds(message) == {message.content[i].id : i \in {k \in 1..Len(message.content) : message.content[k].type = "tool_result"}}

\* C29: every tool_use block of an assistant message appended to the message
\* list has a tool_result with its id in the user message appended right
\* after it, and execute_action ran for exactly the blocks that got a
\* tool_result.
C29_ToolUseAnswered ==
    (agt.pc # "idle" /\ agt.appended # <<>>) =>
        /\ agt.appended[1].role = "assistant" /\ agt.appended[2].role = "user"
        /\ ToolUseIds(agt.appended[1]) \subseteq ToolResultIds(agt.appended[2])
        /\ agt.acted = ToolResultIds(agt.appended[2])

====
